---------------------------- MODULE Spec2Model ----------------------------
(***************************************************************************)
(* Model of the image preprocessing pipeline of inspired-outfitting:       *)
(*   lib/imageProcessing.ts      fileToDataUrl, dataUrlToFile              *)
(*   lib/backgroundRemoval.ts    removeBackground (Replicate, client-side) *)
(*   lib/garmentSegmentation.ts  segmentGarment, getSegmentedGarment       *)
(*   lib/preprocessingPipeline.ts preprocessImages                         *)
(*   app/dress-yourself page     handleGenerate                            *)
(* Every await of the source is a step of the state machine; what a        *)
(* collaborator (FileReader, fetch, Image, canvas, the Replicate route,    *)
(* the generation service) answers is drawn from a small set of outcomes.  *)
(***************************************************************************)
EXTENDS Integers, Sequences, FiniteSets, TLC

VARIABLES
    pc,                  \* position inside preprocessImages
    options,             \* the destructured PreprocessingOptions
    personImageFile,     \* argument 1 of preprocessImages
    garmentImageFile,    \* argument 2 of preprocessImages
    steps,               \* steps.{personBackgroundRemoved, garmentBackgroundRemoved, garmentSegmented}
    personImageDataUrl,  \* let personImageDataUrl
    garmentImageDataUrl, \* let garmentImageDataUrl
    debugInfo,           \* PreprocessingDebugInfo being accumulated
    thrown,              \* message of the Error travelling to the catch block
    bundle,              \* the PreprocessingResult the call resolved with
    rb,                  \* the activation of removeBackground, if any
    hist,                \* history of the call: stage events in order, removals, segmentation input
    page,                \* state of the DressYourself page component
    comp,                \* the activation of compositeImageWithBackground, if any
    calc,                \* a call of one of the synchronous image functions and its result
    suspended            \* the locals of a second preprocessImages call waiting at an await

vars == <<pc, options, personImageFile, garmentImageFile, steps,
          personImageDataUrl, garmentImageDataUrl, debugInfo, thrown,
          bundle, rb, hist, page, comp, calc, suspended>>

pipeVars == <<pc, options, personImageFile, garmentImageFile, steps,
              personImageDataUrl, garmentImageDataUrl, debugInfo, thrown,
              bundle, rb, hist>>

libVars == <<comp, calc, suspended>>

(***************************************************************************)
(* Values.                                                                 *)
(***************************************************************************)

\* A decoded picture: whose it is and what has removed its background.
NoImg == [subject |-> "none", bg |-> "none"]
Picture(subject) == [subject |-> subject, bg |-> "original"]

\* The picture after a remover has run over it.
Removed(img, method) == [img EXCEPT !.bg = method]

\* One RGBA pixel of an ImageData (four consecutive bytes of data).
Pixel(r, g, b, a) == [r |-> r, g |-> g, b |-> b, a |-> a]
Grey(v) == Pixel(v, v, v, 255)

\* An ImageData: width, height and data, one entry per pixel in row-major order.
ImageData(width, height, data) == [width |-> width, height |-> height, data |-> data]

\* data[(y * width + x) * 4 ..] for 0-based x, y.
PixelAt(imageData, x, y) == imageData.data[y * imageData.width + x + 1]

PNG == "image/png"
JPEG == "image/jpeg"
MimeTypes == {PNG, JPEG}

\* A File object. ref is the object's identity (=== compares references):
\* the uploads have their own, and every `new File` of a call site is a new object.
NoFile == [ref |-> "none", name |-> "", type |-> "", img |-> NoImg]
Upload(subject, type) ==
    [ref |-> "upload:" \o subject, name |-> subject \o "-upload",
     type |-> type, img |-> Picture(subject)]

\* A data: or blob: URL; EmptyUrl is the empty string ''.
EmptyUrl == [scheme |-> "", mime |-> "", img |-> NoImg]
Truthy(url) == url # EmptyUrl

(***************************************************************************)
(* lib/imageProcessing.ts                                                  *)
(***************************************************************************)

ReadOutcomes == {"ok", "error"}

\* fileToDataUrl resolves with reader.result, a data: URL of the file's bytes.
fileToDataUrl(file) == [scheme |-> "data", mime |-> file.type, img |-> file.img]

EncodeOutcomes == {"ok", "fetch-error", "load-error"}

IncludesBgRemoved(fileName) ==
    fileName \in {"processed-person-bg-removed.png", "processed-garment-bg-removed.png"}

\* dataUrlToFile needs loadImage only on the convert-to-PNG branch.
dataUrlToFileFails(dataUrl, fileName, outcome) ==
    \/ outcome = "fetch-error"
    \/ /\ outcome = "load-error"
       /\ dataUrl.mime # PNG
       /\ IncludesBgRemoved(fileName)

\* The File dataUrlToFile resolves with: a new object, PNG when the name says bg-removed.
dataUrlToFile(dataUrl, fileName) ==
    [ref  |-> "new:" \o fileName,
     name |-> fileName,
     type |-> IF IncludesBgRemoved(fileName) THEN PNG
              ELSE IF dataUrl.mime = "" THEN PNG ELSE dataUrl.mime,
     img  |-> dataUrl.img]

(***************************************************************************)
(* lib/backgroundRemoval.ts                                                *)
(***************************************************************************)

NoDebug == [method |-> "none", warnings |-> <<>>]
HasDebug(d) == d.method # "none"

NoResult == [imageDataUrl |-> EmptyUrl, success |-> FALSE, error |-> "", debug |-> NoDebug]

\* What the POST to /api/remove-background and the decoding of its answer can do.
ReplicateOk == {"png", "non-png"}
ReplicateFailures == {"no-token", "server-error", "network-error", "load-error"}
ReplicateOutcomes == ReplicateOk \cup ReplicateFailures

\* error.message || 'Replicate API failed' for each way the try block throws.
ReplicateErrorMessage(outcome) ==
    CASE outcome = "no-token"      -> "Replicate API token not configured"
      [] outcome = "server-error"  -> "Background removal failed"
      [] outcome = "network-error" -> "Failed to fetch"
      [] OTHER                     -> "Replicate API failed"

removeBackgroundWithReplicate(imageFile, includeDebug, outcome) ==
    IF outcome \in ReplicateOk
    THEN [imageDataUrl |-> [scheme |-> IF outcome = "png" THEN "blob" ELSE "data",
                            mime   |-> PNG,
                            img    |-> Removed(imageFile.img, "replicate")],
          success |-> TRUE,
          error   |-> "",
          debug   |-> IF includeDebug
                      THEN [method |-> "replicate", warnings |-> <<>>]
                      ELSE NoDebug]
    ELSE [imageDataUrl |-> EmptyUrl,
          success |-> FALSE,
          error   |-> ReplicateErrorMessage(outcome),
          debug   |-> IF includeDebug
                      THEN [method |-> "replicate",
                            warnings |-> <<ReplicateErrorMessage(outcome)>>]
                      ELSE NoDebug]

ClientSideOutcomes == {"ok", "load-error", "no-context"}

ClientSideErrorMessage(outcome) ==
    IF outcome = "no-context" THEN "Could not get canvas context"
    ELSE "Client-side removal failed"

ClientSideNotice ==
    "Using basic client-side removal. For better results, configure REPLICATE_API_TOKEN."

removeBackgroundClientSide(imageFile, includeDebug, outcome) ==
    IF outcome = "ok"
    THEN [imageDataUrl |-> [scheme |-> "data", mime |-> PNG,
                            img |-> Removed(imageFile.img, "client-side")],
          success |-> TRUE,
          error   |-> "",
          debug   |-> IF includeDebug
                      THEN [method |-> "client-side", warnings |-> <<ClientSideNotice>>]
                      ELSE NoDebug]
    ELSE [imageDataUrl |-> EmptyUrl,
          success |-> FALSE,
          error   |-> ClientSideErrorMessage(outcome),
          debug   |-> IF includeDebug
                      THEN [method |-> "client-side",
                            warnings |-> <<ClientSideErrorMessage(outcome)>>]
                      ELSE NoDebug]

ReplicateFailedNote(replicateResult) == "Replicate failed: " \o replicateResult.error

\* Variant: the fallback's result is returned as it came, the Replicate warnings dropped.
MergeFallback_LocalOnly(replicateResult, fallbackResult, includeDebug) == fallbackResult

\* removeBackground, after the fallback returned: merge the debug info of both attempts.
MergeFallback(replicateResult, fallbackResult, includeDebug) ==
    IF includeDebug /\ HasDebug(replicateResult.debug) /\ HasDebug(fallbackResult.debug)
    THEN [fallbackResult EXCEPT !.debug.warnings =
              replicateResult.debug.warnings
              \o <<ReplicateFailedNote(replicateResult)>>
              \o fallbackResult.debug.warnings]
    ELSE fallbackResult

\* Variant: the client-side remover runs after every Replicate attempt.
NeedsFallback_Always(replicateResult) == TRUE

\* removeBackground falls back exactly when the Replicate attempt did not succeed.
NeedsFallback(replicateResult) == ~replicateResult.success


\* Variant: the client-side remover has no try/catch, so a failure rejects.
ClientSideSettles_Uncaught(outcome) == IF outcome = "ok" THEN "resolved" ELSE "rejected"

\* Both removers run wholly inside try/catch: whatever happens, the promise resolves.
ReplicateSettles(outcome) == "resolved"
ClientSideSettles(outcome) == "resolved"

RbIdle == [pc |-> "idle", imageFile |-> NoFile, includeDebug |-> FALSE,
           replicateResult |-> NoResult, fallbackResult |-> NoResult,
           result |-> NoResult, attempts |-> <<>>]

\* removeBackground(imageFile, includeDebug) is entered.
RbCall(imageFile, includeDebug) ==
    [RbIdle EXCEPT !.pc = "replicate", !.imageFile = imageFile,
                   !.includeDebug = includeDebug]

Log(event) == [hist EXCEPT !.log = Append(@, event)]

\* const replicateResult = await removeBackgroundWithReplicate(...); return it on success.
RemoveBackground_Replicate ==
    /\ rb.pc = "replicate"
    /\ \E outcome \in ReplicateOutcomes :
         LET r == removeBackgroundWithReplicate(rb.imageFile, rb.includeDebug, outcome)
             a == Append(rb.attempts, "replicate")
         IN rb' = IF ReplicateSettles(outcome) # "resolved"
                  THEN [rb EXCEPT !.pc = "rejected", !.attempts = a]
                  ELSE IF NeedsFallback(r)
                  THEN [rb EXCEPT !.pc = "fallback", !.replicateResult = r, !.attempts = a]
                  ELSE [rb EXCEPT !.pc = "return", !.replicateResult = r,
                                  !.result = r, !.attempts = a]
    /\ hist' = Log("replicate")
    /\ UNCHANGED <<pc, options, personImageFile, garmentImageFile, steps,
                   personImageDataUrl, garmentImageDataUrl, debugInfo, thrown,
                   bundle, page, libVars>>

\* const fallbackResult = await removeBackgroundClientSide(...); merge; return it.
RemoveBackground_Fallback ==
    /\ rb.pc = "fallback"
    /\ \E outcome \in ClientSideOutcomes :
         LET f == removeBackgroundClientSide(rb.imageFile, rb.includeDebug, outcome)
             a == Append(rb.attempts, "client-side")
         IN rb' = IF ClientSideSettles(outcome) # "resolved"
                  THEN [rb EXCEPT !.pc = "rejected", !.attempts = a]
                  ELSE [rb EXCEPT !.pc = "return", !.fallbackResult = f,
                                  !.result = MergeFallback(rb.replicateResult, f,
                                                           rb.includeDebug),
                                  !.attempts = a]
    /\ hist' = Log("client-side")
    /\ UNCHANGED <<pc, options, personImageFile, garmentImageFile, steps,
                   personImageDataUrl, garmentImageDataUrl, debugInfo, thrown,
                   bundle, page, libVars>>

(***************************************************************************)
(* lib/garmentSegmentation.ts                                              *)
(***************************************************************************)

GarmentTypes == {"top", "bottom", "fullBody", "completeOutfit"}

NoSegDebug == [decision |-> "none", selectedGarmentType |-> "none"]
NoSegResult == [segmentedImageDataUrl |-> EmptyUrl, success |-> FALSE,
                error |-> "", debug |-> NoSegDebug]

SegmentOutcomes == {"ok", "load-error", "no-context"}

\* The region of the switch (garmentType): top is the upper 60% of the rows, bottom the
\* lower 60% starting at 40% of the height, anything else the whole image. getImageData
\* and canvas.height take whole numbers: the fractions are cut off.
RegionOf(garmentType, width, height) ==
    CASE garmentType = "top"
           -> [x |-> 0, y |-> 0, width |-> width, height |-> (height * 6) \div 10]
      [] garmentType = "bottom"
           -> [x |-> 0, y |-> (height * 4) \div 10, width |-> width,
               height |-> (height * 6) \div 10]
      [] OTHER
           -> [x |-> 0, y |-> 0, width |-> width, height |-> height]

\* ctx.getImageData(regionX, regionY, regionWidth, regionHeight) put on a new canvas.
CropRows(imageData, region) ==
    ImageData(region.width, region.height,
              SubSeq(imageData.data, region.y * imageData.width + 1,
                     (region.y + region.height) * imageData.width))

\* The fallback of segmentGarment: "region-based cropping (should rarely be used now)".
\* regionCoordinates is kept here as the whole-pixel rectangle that was cut out.
RegionCrop(imageDataUrl, garmentType, includeDebug) ==
    LET region == RegionOf(garmentType, imageDataUrl.img.width, imageDataUrl.img.height)
    IN [segmentedImageDataUrl |-> [scheme |-> "data", mime |-> PNG,
                                   img |-> CropRows(imageDataUrl.img, region)],
        success |-> TRUE, error |-> "",
        debug |-> IF includeDebug
                  THEN [decision |-> "using-region-cropping",
                        selectedGarmentType |-> garmentType,
                        regionCoordinates |-> region]
                  ELSE NoSegDebug]

\* Variant: top and bottom are cropped to their region, as the switch would have it.
segmentGarment_Cropping(imageDataUrl, garmentType, includeDebug, outcome) ==
    IF outcome # "ok"
    THEN [segmentedImageDataUrl |-> EmptyUrl, success |-> FALSE,
          error |-> "Segmentation failed", debug |-> NoSegDebug]
    ELSE IF garmentType \in {"fullBody", "completeOutfit"}
    THEN [segmentedImageDataUrl |-> imageDataUrl, success |-> TRUE, error |-> "",
          debug |-> IF includeDebug
                    THEN [decision |-> "using-full-image",
                          selectedGarmentType |-> garmentType]
                    ELSE NoSegDebug]
    ELSE RegionCrop(imageDataUrl, garmentType, includeDebug)

\* segmentGarment: top/bottom and fullBody/completeOutfit hand the input URL back;
\* the region crop is what is left for any other type.
segmentGarment(imageDataUrl, garmentType, includeDebug, outcome) ==
    IF outcome # "ok"
    THEN [segmentedImageDataUrl |-> EmptyUrl, success |-> FALSE,
          error |-> IF outcome = "no-context" THEN "Could not get canvas context"
                    ELSE "Segmentation failed",
          debug |-> NoSegDebug]
    ELSE IF garmentType \in {"top", "bottom"} \/ garmentType \in {"fullBody", "completeOutfit"}
    THEN [segmentedImageDataUrl |-> imageDataUrl, success |-> TRUE, error |-> "",
          debug |-> IF includeDebug
                    THEN [decision |-> "using-full-image",
                          selectedGarmentType |-> garmentType]
                    ELSE NoSegDebug]
    ELSE RegionCrop(imageDataUrl, garmentType, includeDebug)

\* Variant: the advanced mode takes the region crop.
getSegmentedGarment_Advanced(imageDataUrl, garmentType, useAdvanced, includeDebug, outcome) ==
    IF outcome # "ok" THEN segmentGarment(imageDataUrl, garmentType, includeDebug, outcome)
    ELSE IF useAdvanced THEN RegionCrop(imageDataUrl, garmentType, includeDebug)
    ELSE segmentGarment(imageDataUrl, garmentType, includeDebug, outcome)

\* Both branches of getSegmentedGarment call segmentGarment.
getSegmentedGarment(imageDataUrl, garmentType, useAdvanced, includeDebug, outcome) ==
    IF useAdvanced
    THEN segmentGarment(imageDataUrl, garmentType, includeDebug, outcome)
    ELSE segmentGarment(imageDataUrl, garmentType, includeDebug, outcome)

(***************************************************************************)
(* lib/preprocessingPipeline.ts: preprocessImages                          *)
(***************************************************************************)

OptionSets ==
    [removePersonBackground : BOOLEAN, removeGarmentBackground : BOOLEAN,
     segmentGarment : BOOLEAN, garmentType : GarmentTypes,
     useAdvancedSegmentation : BOOLEAN, includeDebug : BOOLEAN]

NoOptions ==
    [removePersonBackground |-> FALSE, removeGarmentBackground |-> FALSE,
     segmentGarment |-> FALSE, garmentType |-> "completeOutfit",
     useAdvancedSegmentation |-> FALSE, includeDebug |-> FALSE]

StepsInit ==
    [personBackgroundRemoved |-> FALSE, garmentBackgroundRemoved |-> FALSE,
     garmentSegmented |-> FALSE]

DebugInfoInit ==
    [personBackgroundRemoval |-> NoDebug, garmentBackgroundRemoval |-> NoDebug,
     garmentSegmentation |-> NoSegDebug,
     originalPersonImageDataUrl |-> EmptyUrl, originalGarmentImageDataUrl |-> EmptyUrl,
     personImageAfterBackgroundRemoval |-> EmptyUrl,
     garmentImageAfterBackgroundRemoval |-> EmptyUrl,
     garmentImageAfterSegmentation |-> EmptyUrl,
     finalPersonImageDataUrl |-> EmptyUrl, finalGarmentImageDataUrl |-> EmptyUrl]

NoBundle ==
    [returned |-> FALSE, processedPersonImage |-> NoFile, processedGarmentImage |-> NoFile,
     personImageDataUrl |-> EmptyUrl, garmentImageDataUrl |-> EmptyUrl,
     success |-> FALSE, error |-> "", steps |-> StepsInit,
     hasDebug |-> FALSE, debug |-> DebugInfoInit]

\* History of one call: the stages in the order they started and ended, the
\* removeBackground activations as they returned, and what segmentation was given.
HistInit == [log |-> <<>>, removals |-> <<>>, segInput |-> EmptyUrl]

PersonGateError == "Person background removal failed. Cannot proceed with original image."
GarmentGateError == "Garment background removal failed. Cannot proceed with original image."
PersonVerifyError ==
    "CRITICAL: Person image background was NOT removed - cannot use original image!"
GarmentVerifyError ==
    "CRITICAL: Garment image background was NOT removed - cannot use original image!"
PreprocessingFailed == "Preprocessing failed"
FailedToFetch == "Failed to fetch"

\* error.message of what dataUrlToFile rejects with (a TypeError of fetch, or the
\* Event of img.onerror, which has no message).
EncodeErrorMessage(outcome) ==
    IF outcome = "fetch-error" THEN FailedToFetch ELSE ""

\* error.message || 'Preprocessing failed'
CatchMessage(message) == IF message = "" THEN PreprocessingFailed ELSE message

\* The body of preprocessImages up to the try: destructure options, steps all false.
Enter(person, garment, opts) ==
    /\ pc' = "decode"
    /\ options' = opts
    /\ personImageFile' = person
    /\ garmentImageFile' = garment
    /\ steps' = StepsInit
    /\ debugInfo' = DebugInfoInit
    /\ personImageDataUrl' = EmptyUrl
    /\ garmentImageDataUrl' = EmptyUrl
    /\ thrown' = ""
    /\ bundle' = NoBundle
    /\ rb' = RbIdle
    /\ hist' = HistInit

Throw(message) == pc' = "catch" /\ thrown' = message

\* Variant: Step 3 written before Step 2.
StageAfter_SegmentFirst(stage) ==
    CASE stage = "decode"    -> "personBg"
      [] stage = "personBg"  -> "segment"
      [] stage = "segment"   -> "garmentBg"
      [] stage = "garmentBg" -> "gate"
      [] stage = "gate"      -> "encode"
      [] stage = "encode"    -> "verify"
      [] OTHER               -> "done"

\* Variant: a failed removal throws at once instead of falling through.
AfterFailedRemoval_Abort(stage) == "catch"

\* The statements of the try block in source order: where control goes when a stage is over.
StageAfter(stage) ==
    CASE stage = "decode"    -> "personBg"
      [] stage = "personBg"  -> "garmentBg"
      [] stage = "garmentBg" -> "segment"
      [] stage = "segment"   -> "gate"
      [] stage = "gate"      -> "encode"
      [] stage = "encode"    -> "verify"
      [] OTHER               -> "done"

\* The else branches of Steps 1 and 2 only warn ("using original") and fall through.
AfterFailedRemoval(stage) == StageAfter(stage)

\* A caller of the library calls preprocessImages(personImageFile, garmentImageFile, options).
preprocessImages_Call ==
    /\ pc = "idle"
    /\ \E opts \in OptionSets, tp \in MimeTypes, tg \in MimeTypes :
         Enter(Upload("person", tp), Upload("garment", tg), opts)
    /\ UNCHANGED <<page, libVars>>

\* await fileToDataUrl(personImageFile); await fileToDataUrl(garmentImageFile)
Decode ==
    /\ pc = "decode"
    /\ \E op \in ReadOutcomes, og \in ReadOutcomes :
         IF op = "ok" /\ og = "ok"
         THEN /\ personImageDataUrl' = fileToDataUrl(personImageFile)
              /\ garmentImageDataUrl' = fileToDataUrl(garmentImageFile)
              /\ debugInfo' = IF options.includeDebug
                              THEN [debugInfo EXCEPT
                                      !.originalPersonImageDataUrl = fileToDataUrl(personImageFile),
                                      !.originalGarmentImageDataUrl = fileToDataUrl(garmentImageFile)]
                              ELSE debugInfo
              /\ pc' = StageAfter("decode")
              /\ thrown' = thrown
              /\ hist' = Log("decode")
         ELSE /\ Throw("")
              /\ personImageDataUrl' = IF op = "ok" THEN fileToDataUrl(personImageFile)
                                       ELSE personImageDataUrl
              /\ UNCHANGED <<garmentImageDataUrl, debugInfo>>
              /\ hist' = Log("decode:error")
    /\ UNCHANGED <<options, personImageFile, garmentImageFile, steps, bundle, rb, page, libVars>>

\* Step 1: if (removePersonBackground) ... await removeBackground(personImageFile, includeDebug)
PersonBg_Start ==
    /\ pc = "personBg"
    /\ IF options.removePersonBackground
       THEN /\ rb' = RbCall(personImageFile, options.includeDebug)
            /\ pc' = "personBgWait"
            /\ hist' = Log("person-bg:start")
       ELSE /\ pc' = StageAfter("personBg")
            /\ UNCHANGED <<rb, hist>>
    /\ UNCHANGED <<options, personImageFile, garmentImageFile, steps,
                   personImageDataUrl, garmentImageDataUrl, debugInfo, thrown,
                   bundle, page, libVars>>

\* Variant: Step 1 takes personBgResult.imageDataUrl without looking at success.
PersonBg_AcceptsUnchecked(result) == TRUE

\* What Step 1 does with personBgResult.
PersonBg_Accepts(result) == result.success /\ Truthy(result.imageDataUrl)

PersonBg_Return ==
    /\ pc = "personBgWait"
    /\ rb.pc \in {"return", "rejected"}
    /\ IF rb.pc = "rejected"
       THEN /\ Throw("")
            /\ UNCHANGED <<personImageDataUrl, steps, debugInfo>>
       ELSE /\ pc' = IF PersonBg_Accepts(rb.result) THEN StageAfter("personBg")
                      ELSE AfterFailedRemoval("personBg")
            /\ thrown' = thrown
            /\ IF PersonBg_Accepts(rb.result)
               THEN /\ personImageDataUrl' = rb.result.imageDataUrl
                    /\ steps' = [steps EXCEPT !.personBackgroundRemoved = TRUE]
                    /\ debugInfo' = IF options.includeDebug
                                    THEN [debugInfo EXCEPT
                                            !.personBackgroundRemoval = rb.result.debug,
                                            !.personImageAfterBackgroundRemoval =
                                                rb.result.imageDataUrl]
                                    ELSE debugInfo
               ELSE /\ debugInfo' = IF options.includeDebug /\ HasDebug(rb.result.debug)
                                    THEN [debugInfo EXCEPT
                                            !.personBackgroundRemoval = rb.result.debug]
                                    ELSE debugInfo
                    /\ UNCHANGED <<personImageDataUrl, steps>>
    /\ rb' = [rb EXCEPT !.pc = "idle"]
    /\ hist' = [hist EXCEPT !.log = Append(@, "person-bg:end"),
                            !.removals = Append(@, rb)]
    /\ UNCHANGED <<options, personImageFile, garmentImageFile, garmentImageDataUrl,
                   bundle, page, libVars>>

\* Step 2: if (removeGarmentBackground) ... dataUrlToFile(garmentImageDataUrl, 'garment.png'),
\* then await removeBackground(garmentFile, includeDebug)
GarmentBg_Start ==
    /\ pc = "garmentBg"
    /\ IF options.removeGarmentBackground
       THEN \E outcome \in EncodeOutcomes :
              IF dataUrlToFileFails(garmentImageDataUrl, "garment.png", outcome)
              THEN /\ Throw(EncodeErrorMessage(outcome))
                   /\ UNCHANGED rb
                   /\ hist' = Log("garment-file:error")
              ELSE /\ rb' = RbCall(dataUrlToFile(garmentImageDataUrl, "garment.png"),
                                   options.includeDebug)
                   /\ pc' = "garmentBgWait"
                   /\ thrown' = thrown
                   /\ hist' = Log("garment-bg:start")
       ELSE /\ pc' = StageAfter("garmentBg")
            /\ UNCHANGED <<rb, hist, thrown>>
    /\ UNCHANGED <<options, personImageFile, garmentImageFile, steps,
                   personImageDataUrl, garmentImageDataUrl, debugInfo, bundle, page, libVars>>

\* Variant: Step 2 accepts only the blob: URL the Replicate path hands back.
GarmentBg_AcceptsBlobOnly(result) == result.success /\ result.imageDataUrl.scheme = "blob"

\* What Step 2 does with garmentBgResult.
GarmentBg_Accepts(result) == result.success /\ Truthy(result.imageDataUrl)

GarmentBg_Return ==
    /\ pc = "garmentBgWait"
    /\ rb.pc \in {"return", "rejected"}
    /\ IF rb.pc = "rejected"
       THEN /\ Throw("")
            /\ UNCHANGED <<garmentImageDataUrl, steps, debugInfo>>
       ELSE /\ pc' = IF GarmentBg_Accepts(rb.result) THEN StageAfter("garmentBg")
                      ELSE AfterFailedRemoval("garmentBg")
            /\ thrown' = thrown
            /\ IF GarmentBg_Accepts(rb.result)
               THEN /\ garmentImageDataUrl' = rb.result.imageDataUrl
                    /\ steps' = [steps EXCEPT !.garmentBackgroundRemoved = TRUE]
                    /\ debugInfo' = IF options.includeDebug
                                    THEN [debugInfo EXCEPT
                                            !.garmentBackgroundRemoval = rb.result.debug,
                                            !.garmentImageAfterBackgroundRemoval =
                                                rb.result.imageDataUrl]
                                    ELSE debugInfo
               ELSE /\ debugInfo' = IF options.includeDebug /\ HasDebug(rb.result.debug)
                                    THEN [debugInfo EXCEPT
                                            !.garmentBackgroundRemoval = rb.result.debug]
                                    ELSE debugInfo
                    /\ UNCHANGED <<garmentImageDataUrl, steps>>
    /\ rb' = [rb EXCEPT !.pc = "idle"]
    /\ hist' = [hist EXCEPT !.log = Append(@, "garment-bg:end"),
                            !.removals = Append(@, rb)]
    /\ UNCHANGED <<options, personImageFile, garmentImageFile, personImageDataUrl,
                   bundle, page, libVars>>

\* Step 3 runs when segmentGarment && garmentType (every GarmentType is a truthy string).
SegmentationRequested(opts) == opts.segmentGarment /\ opts.garmentType # ""

\* Step 3: await getSegmentedGarment(garmentImageDataUrl, garmentType, useAdvanced, includeDebug)
Segment ==
    /\ pc = "segment"
    /\ IF SegmentationRequested(options)
       THEN \E outcome \in SegmentOutcomes :
              LET segmentedResult ==
                      getSegmentedGarment(garmentImageDataUrl, options.garmentType,
                                          options.useAdvancedSegmentation,
                                          options.includeDebug, outcome)
              IN /\ hist' = [hist EXCEPT !.log = @ \o <<"segment:start", "segment:end">>,
                                          !.segInput = garmentImageDataUrl]
                 /\ IF segmentedResult.success
                    THEN /\ garmentImageDataUrl' = segmentedResult.segmentedImageDataUrl
                         /\ steps' = [steps EXCEPT !.garmentSegmented = TRUE]
                         /\ debugInfo' = IF options.includeDebug
                                         THEN [debugInfo EXCEPT
                                                 !.garmentSegmentation = segmentedResult.debug,
                                                 !.garmentImageAfterSegmentation =
                                                     segmentedResult.segmentedImageDataUrl]
                                         ELSE debugInfo
                    ELSE UNCHANGED <<garmentImageDataUrl, steps, debugInfo>>
       ELSE UNCHANGED <<hist, garmentImageDataUrl, steps, debugInfo>>
    /\ pc' = StageAfter("segment")
    /\ UNCHANGED <<options, personImageFile, garmentImageFile, personImageDataUrl,
                   thrown, bundle, rb, page, libVars>>

\* Variant: the gate looks at the person flag only.
GateError_PersonOnly(opts, st) ==
    IF opts.removePersonBackground /\ ~st.personBackgroundRemoved THEN PersonGateError
    ELSE ""

\* The gate before the File objects are made: a requested removal whose flag is false throws.
GateError(opts, st) ==
    IF opts.removePersonBackground /\ ~st.personBackgroundRemoved THEN PersonGateError
    ELSE IF opts.removeGarmentBackground /\ ~st.garmentBackgroundRemoved THEN GarmentGateError
    ELSE ""

Gate ==
    /\ pc = "gate"
    /\ IF GateError(options, steps) # ""
       THEN Throw(GateError(options, steps))
       ELSE pc' = StageAfter("gate") /\ thrown' = thrown
    /\ hist' = Log("gate")
    /\ UNCHANGED <<options, personImageFile, garmentImageFile, steps,
                   personImageDataUrl, garmentImageDataUrl, debugInfo, bundle, rb, page, libVars>>

\* await dataUrlToFile(personImageDataUrl, 'processed-person-bg-removed.png');
\* await dataUrlToFile(garmentImageDataUrl, 'processed-garment-bg-removed.png')
Encode ==
    /\ pc = "encode"
    /\ \E op \in EncodeOutcomes, og \in EncodeOutcomes :
         IF dataUrlToFileFails(personImageDataUrl, "processed-person-bg-removed.png", op)
         THEN Throw(EncodeErrorMessage(op)) /\ UNCHANGED bundle /\ hist' = Log("encode:error")
         ELSE IF dataUrlToFileFails(garmentImageDataUrl, "processed-garment-bg-removed.png", og)
         THEN Throw(EncodeErrorMessage(og)) /\ UNCHANGED bundle /\ hist' = Log("encode:error")
         ELSE /\ pc' = StageAfter("encode")
              /\ thrown' = thrown
              /\ hist' = Log("encode")
              /\ bundle' = [bundle EXCEPT
                    !.processedPersonImage =
                        dataUrlToFile(personImageDataUrl, "processed-person-bg-removed.png"),
                    !.processedGarmentImage =
                        dataUrlToFile(garmentImageDataUrl, "processed-garment-bg-removed.png")]
    /\ UNCHANGED <<options, personImageFile, garmentImageFile, steps,
                   personImageDataUrl, garmentImageDataUrl, debugInfo, rb, page, libVars>>

\* Variant: the final verification looks at the person flag only.
VerifyError_PersonOnly(st) ==
    IF ~st.personBackgroundRemoved THEN PersonVerifyError ELSE ""

\* "Final verification": both flags must be true, whatever was requested.
VerifyError(st) ==
    IF ~st.personBackgroundRemoved THEN PersonVerifyError
    ELSE IF ~st.garmentBackgroundRemoved THEN GarmentVerifyError
    ELSE ""

\* The final verification, then return { ..., success: true, steps, debug }.
Verify ==
    /\ pc = "verify"
    /\ IF VerifyError(steps) # ""
       THEN /\ Throw(VerifyError(steps))
            /\ UNCHANGED <<bundle, debugInfo>>
            /\ hist' = Log("verify")
       ELSE LET dbg == IF options.includeDebug
                       THEN [debugInfo EXCEPT
                               !.finalPersonImageDataUrl = personImageDataUrl,
                               !.finalGarmentImageDataUrl = garmentImageDataUrl]
                       ELSE debugInfo
            IN /\ debugInfo' = dbg
               /\ bundle' = [bundle EXCEPT
                     !.returned = TRUE,
                     !.personImageDataUrl = personImageDataUrl,
                     !.garmentImageDataUrl = garmentImageDataUrl,
                     !.success = TRUE,
                     !.steps = steps,
                     !.hasDebug = options.includeDebug,
                     !.debug = IF options.includeDebug THEN dbg ELSE DebugInfoInit]
               /\ pc' = StageAfter("verify")
               /\ thrown' = thrown
               /\ hist' = [hist EXCEPT !.log = @ \o <<"verify", "return">>]
    /\ UNCHANGED <<options, personImageFile, garmentImageFile, steps,
                   personImageDataUrl, garmentImageDataUrl, rb, page, libVars>>

\* What the catch block returns as processedPersonImage / processedGarmentImage.
CatchPersonImage(person) == person
CatchGarmentImage(garment) == garment

\* Variant: the catch block awaits fileToDataUrl without its .catch(() => '').
CatchReadSettles_Uncaught(outcome) == IF outcome = "ok" THEN "resolved" ELSE "rejected"

\* await fileToDataUrl(file).catch(() => '') in the catch block: always a value.
CatchReadSettles(outcome) == "resolved"

\* catch (error): return { processedPersonImage: personImageFile, ..., success: false, ... }
Catch ==
    /\ pc = "catch"
    /\ \E op \in ReadOutcomes, og \in ReadOutcomes :
         IF CatchReadSettles(op) # "resolved" \/ CatchReadSettles(og) # "resolved"
         THEN pc' = "rejected" /\ UNCHANGED bundle
         ELSE
         /\ pc' = "done"
         /\ bundle' = [returned |-> TRUE,
                    processedPersonImage |-> CatchPersonImage(personImageFile),
                    processedGarmentImage |-> CatchGarmentImage(garmentImageFile),
                    personImageDataUrl |-> IF op = "ok" THEN fileToDataUrl(personImageFile)
                                           ELSE EmptyUrl,
                    garmentImageDataUrl |-> IF og = "ok" THEN fileToDataUrl(garmentImageFile)
                                            ELSE EmptyUrl,
                    success |-> FALSE,
                    error |-> CatchMessage(thrown),
                    steps |-> steps,
                    hasDebug |-> options.includeDebug,
                    debug |-> IF options.includeDebug THEN debugInfo ELSE DebugInfoInit]
    /\ hist' = [hist EXCEPT !.log = @ \o <<"catch", "return">>]
    /\ UNCHANGED <<options, personImageFile, garmentImageFile, steps,
                   personImageDataUrl, garmentImageDataUrl, debugInfo, thrown, rb, page, libVars>>

\* The caller returns: the bundle and every other local of the request is gone.
DropLocals ==
    /\ pc' = "idle"
    /\ options' = NoOptions
    /\ personImageFile' = NoFile
    /\ garmentImageFile' = NoFile
    /\ steps' = StepsInit
    /\ debugInfo' = DebugInfoInit
    /\ personImageDataUrl' = EmptyUrl
    /\ garmentImageDataUrl' = EmptyUrl
    /\ thrown' = ""
    /\ bundle' = NoBundle
    /\ rb' = RbIdle
    /\ hist' = HistInit

\* A direct caller drops the bundle it was given.
Discard ==
    /\ pc = "done"
    /\ page.pc = "idle"
    /\ DropLocals
    /\ UNCHANGED <<page, libVars>>

(***************************************************************************)
(* The DressYourself page: the upload and garment handlers, handleGenerate *)
(***************************************************************************)

NoSelection == [top |-> FALSE, bottom |-> FALSE, fullBody |-> FALSE]
NoPayload == [person |-> NoFile, garment |-> NoFile, mimeType |-> ""]

\* The component after its first render (useState initial values); error, generatedImage
\* and compositedImage use "" for null. hgPerson/hgOutfit are the files captured by the
\* running handleGenerate closure and sent the payload of its generateContent call;
\* attempted/called remember whether the last handleGenerate ran and reached that call.
\* hgBackground is the selectedBackground that closure captured; pending holds the
\* backdrops of the compositing calls started by the background select and not yet
\* settled (calls for the same backdrop give the same composite: one is kept);
\* lastCall is the backdrop of the compositing call started last, lastResult the
\* outcome of the one that settled last, failed whether one has failed since Generate.
PageInit ==
    [pc |-> "idle", personImage |-> NoFile, outfitImage |-> NoFile,
     garmentSelection |-> NoSelection,
     isAuthenticated |-> TRUE, subscription |-> "Pro",
     isLoading |-> FALSE, error |-> "", generatedImage |-> "", compositedImage |-> "",
     selectedBackground |-> "white",
     hgPerson |-> NoFile, hgOutfit |-> NoFile, sent |-> NoPayload,
     attempted |-> FALSE, called |-> FALSE,
     hgBackground |-> "white", pending |-> {}, lastCall |-> "", lastResult |-> "none",
     failed |-> FALSE]

Subscriptions == {"Free", "Pro"}

\* BackgroundType of lib/backgroundCompositing.ts, the options of the select.
BackgroundTypes == {"white", "studio", "fitting-room"}

\* A handleGenerate in flight works on the files and options its closure captured
\* (hgPerson, hgOutfit, options), which a later upload or selection does not touch:
\* the upload and selection events are interleaved between the runs.
handlePersonImageSelect ==
    /\ page.pc = "idle"
    /\ \E t \in MimeTypes : page' = [page EXCEPT !.personImage = Upload("person", t)]
    /\ UNCHANGED <<pipeVars, libVars>>

handleOutfitImageSelect ==
    /\ page.pc = "idle"
    /\ \E t \in MimeTypes :
         page' = [page EXCEPT !.outfitImage = Upload("garment", t),
                              !.garmentSelection = NoSelection]
    /\ UNCHANGED <<pipeVars, libVars>>

\* Variant: picking top or bottom leaves fullBody as it was.
GarmentSelect_KeepsFullBody(prev, type) ==
    IF type = "fullBody"
    THEN [top |-> FALSE, bottom |-> FALSE, fullBody |-> ~prev.fullBody]
    ELSE [prev EXCEPT ![type] = ~prev[type]]

\* setGarmentSelection(prev => ...)
GarmentSelect(prev, type) ==
    IF type = "fullBody"
    THEN [top |-> FALSE, bottom |-> FALSE, fullBody |-> ~prev.fullBody]
    ELSE [prev EXCEPT ![type] = ~prev[type], !.fullBody = FALSE]

handleGarmentSelect ==
    /\ page.pc = "idle"
    /\ \E type \in {"top", "bottom", "fullBody"} :
         page' = [page EXCEPT !.garmentSelection = GarmentSelect(page.garmentSelection, type)]
    /\ UNCHANGED <<pipeVars, libVars>>

\* "Determine garment type from selection"
SelectedGarmentType(sel) ==
    IF sel.fullBody THEN "fullBody"
    ELSE IF sel.top /\ sel.bottom THEN "completeOutfit"
    ELSE IF sel.top THEN "top"
    ELSE IF sel.bottom THEN "bottom"
    ELSE "completeOutfit"

\* The three early returns of handleGenerate; "" when none applies.
GenerateGuardError(pg) ==
    IF pg.personImage = NoFile \/ pg.outfitImage = NoFile
    THEN "Please upload both a person and an outfit image."
    ELSE IF ~(pg.garmentSelection.top \/ pg.garmentSelection.bottom
              \/ pg.garmentSelection.fullBody)
    THEN "Please select the garment type."
    ELSE IF ~pg.isAuthenticated \/ pg.subscription = "Free"
    THEN "Please subscribe to generate unlimited try-ons."
    ELSE ""

\* The options handleGenerate passes to preprocessImages.
GenerateOptions(pg, isDebugMode) ==
    [removePersonBackground |-> TRUE, removeGarmentBackground |-> TRUE,
     segmentGarment |-> TRUE, garmentType |-> SelectedGarmentType(pg.garmentSelection),
     useAdvancedSegmentation |-> FALSE, includeDebug |-> isDebugMode]

\* handleGenerate up to its first await: the guards, the state resets, the call.
handleGenerate_Start ==
    /\ page.pc = "idle"
    /\ ~page.isLoading
    /\ IF GenerateGuardError(page) # ""
       THEN /\ page' = [page EXCEPT !.error = GenerateGuardError(page),
                                    !.attempted = TRUE, !.called = FALSE]
            /\ UNCHANGED <<pipeVars, libVars>>
       ELSE /\ \E isDebugMode \in BOOLEAN :
                 Enter(page.personImage, page.outfitImage,
                       GenerateOptions(page, isDebugMode))
            /\ page' = [page EXCEPT !.pc = "preprocessing", !.isLoading = TRUE,
                                    !.error = "", !.generatedImage = "",
                                    !.hgPerson = page.personImage,
                                    !.hgOutfit = page.outfitImage,
                                    !.hgBackground = page.selectedBackground,
                                    !.lastCall = "", !.lastResult = "none",
                                    !.failed = FALSE,
                                    !.attempted = TRUE, !.called = FALSE]
            /\ UNCHANGED libVars

ApiKeys == {"missing", "short", "valid"}

\* isUsingPreprocessedFiles: reference comparison with the uploaded files.
IsUsingPreprocessedFiles(result, person, outfit) ==
    /\ result.processedPersonImage.ref # person.ref
    /\ result.processedGarmentImage.ref # outfit.ref

\* The checks between the return of preprocessImages and the conversion of the files:
\* the message of the Error thrown, "" when every check passes.
GenerateCheckError(result, person, outfit, apiKey) ==
    IF ~result.success
    THEN (IF result.error = "" THEN PreprocessingFailed ELSE result.error)
    ELSE IF ~result.steps.personBackgroundRemoved
    THEN "Person background removal failed. Cannot proceed with original image. Please try again."
    ELSE IF ~result.steps.garmentBackgroundRemoved
    THEN "Garment background removal failed. Cannot proceed with original image. Please try again."
    ELSE IF apiKey = "missing"
    THEN "API key not found. Please set NEXT_PUBLIC_GEMINI_API_KEY in your .env.local file."
    ELSE IF apiKey = "short"
    THEN "API key appears to be invalid (too short). Please check your NEXT_PUBLIC_GEMINI_API_KEY."
    ELSE IF ~IsUsingPreprocessedFiles(result, person, outfit)
    THEN "SECURITY ERROR: Attempting to send original images instead of preprocessed ones!"
    ELSE ""

\* catch (e) { setError(e.message) ... } finally { setIsLoading(false) }
GenerateFails(message) ==
    /\ page' = [page EXCEPT !.pc = "idle", !.error = message, !.isLoading = FALSE,
                            !.hgPerson = NoFile, !.hgOutfit = NoFile, !.sent = NoPayload]
    /\ UNCHANGED libVars

handleGenerate_Check ==
    /\ page.pc = "preprocessing"
    /\ pc = "done"
    /\ \E apiKey \in ApiKeys :
         LET message == GenerateCheckError(bundle, page.hgPerson, page.hgOutfit, apiKey)
         IN IF message # ""
            THEN GenerateFails(message) /\ DropLocals
            ELSE page' = [page EXCEPT !.pc = "converting"] /\ UNCHANGED <<pipeVars, libVars>>

PartOutcomes == {"ok", "empty-file", "convert-error"}

\* fileToGenerativePart: a PNG or preprocessed file becomes opaque JPEG base64.
PartMimeType(file) ==
    IF file.type = PNG \/ IncludesBgRemoved(file.name) THEN JPEG ELSE file.type

\* Variant: the uploaded person file is converted instead of the processed one.
PayloadPerson_Upload(result, person) == person

\* The files handed to fileToGenerativePart.
PayloadPerson(result, person) == result.processedPersonImage
PayloadGarment(result, outfit) == result.processedGarmentImage

\* The two fileToGenerativePart awaits, the JPEG checks, then ai.models.generateContent.
handleGenerate_Send ==
    /\ page.pc = "converting"
    /\ \E op \in PartOutcomes, og \in PartOutcomes :
         LET p == PayloadPerson(bundle, page.hgPerson)
             g == PayloadGarment(bundle, page.hgOutfit)
         IN IF op # "ok"
            THEN GenerateFails("Failed to process person image") /\ DropLocals
            ELSE IF og # "ok"
            THEN GenerateFails("Failed to process garment image") /\ DropLocals
            ELSE IF PartMimeType(p) # JPEG
            THEN GenerateFails("Person image conversion to JPEG failed.") /\ DropLocals
            ELSE IF PartMimeType(g) # JPEG
            THEN GenerateFails("Garment image conversion to JPEG failed.") /\ DropLocals
            ELSE /\ page' = [page EXCEPT !.pc = "generating", !.called = TRUE,
                                !.sent = [person |-> p, garment |-> g, mimeType |-> JPEG]]
                 /\ UNCHANGED <<pipeVars, libVars>>

GenerateOutcomes == {"image", "api-error", "no-image"}

\* The answer of generateContent: an image (setGeneratedImage) or an Error.
handleGenerate_Response ==
    /\ page.pc = "generating"
    /\ \E outcome \in GenerateOutcomes :
         IF outcome = "image"
         THEN /\ page' = [page EXCEPT !.pc = "compositing", !.generatedImage = "generated",
                                       !.lastCall = page.hgBackground]
              /\ UNCHANGED <<pipeVars, libVars>>
         ELSE IF outcome = "api-error"
         THEN GenerateFails("API call failed") /\ DropLocals
         ELSE GenerateFails("No image was generated.") /\ DropLocals

CompositeOutcomes == {"ok", "failed"}

\* handleGenerate: setCompositedImage(compositeResult.compositedImageDataUrl) on
\* success, setCompositedImage(imageUrl) otherwise.
GenerateComposite(outcome, backgroundType, imageUrl, compositedImage) ==
    IF outcome = "ok" THEN "composited:" \o backgroundType ELSE imageUrl

\* The background select: .then(result => { if (result.success) setCompositedImage(...) }).
SelectComposite(outcome, backgroundType, imageUrl, compositedImage) ==
    IF outcome = "ok" THEN "composited:" \o backgroundType ELSE compositedImage

\* await compositeImageWithBackground(imageUrl, selectedBackground), then the finally.
handleGenerate_Composite ==
    /\ page.pc = "compositing"
    /\ \E outcome \in CompositeOutcomes :
         page' = [page EXCEPT
                    !.pc = "idle", !.isLoading = FALSE,
                    !.hgPerson = NoFile, !.hgOutfit = NoFile, !.sent = NoPayload,
                    !.compositedImage = GenerateComposite(outcome, page.hgBackground,
                                                          page.generatedImage,
                                                          page.compositedImage),
                    !.lastResult = outcome,
                    !.failed = page.failed \/ outcome = "failed"]
    /\ DropLocals
    /\ UNCHANGED libVars

\* The places of a run of handleGenerate at which the select's events are taken: before
\* and after the run, while generateContent is awaited (generatedImage is null from the
\* start of the run to its answer) and while the run's own compositing is awaited.
SelectEventPoints == {"idle", "generating", "compositing"}

\* The select is rendered when there is a result to show.
SelectRendered == page.compositedImage # "" \/ page.generatedImage # ""

\* onChange of the background select: setSelectedBackground(newBg) and, if there is a
\* generated image, compositeImageWithBackground(generatedImage, newBg) is started.
handleBackgroundChange ==
    /\ page.pc \in SelectEventPoints
    /\ SelectRendered
    /\ \E newBg \in BackgroundTypes \ {page.selectedBackground} :
         page' = IF page.generatedImage # ""
                 THEN [page EXCEPT !.selectedBackground = newBg,
                                   !.pending = @ \cup {newBg},
                                   !.lastCall = newBg]
                 ELSE [page EXCEPT !.selectedBackground = newBg]
    /\ UNCHANGED <<pipeVars, libVars>>

\* A compositing call of the select settles and its .then runs.
BackgroundChange_Settled ==
    /\ page.pc \in SelectEventPoints
    /\ \E backgroundType \in page.pending, outcome \in CompositeOutcomes :
         page' = [page EXCEPT
                    !.pending = @ \ {backgroundType},
                    !.compositedImage = SelectComposite(outcome, backgroundType,
                                                        page.generatedImage,
                                                        page.compositedImage),
                    !.lastResult = outcome,
                    !.failed = page.failed \/ outcome = "failed"]
    /\ UNCHANGED <<pipeVars, libVars>>

(***************************************************************************)
(* The synchronous image functions, on pixel data.                         *)
(***************************************************************************)

\* No call in progress.
NoCalc == [fn |-> "none"]

\* The brightness test of the client-side remover, (r + g + b) / 3 > 240, with both
\* sides multiplied by 3 (the channels are integers 0..255, so the division is exact
\* enough for the comparison: 720 / 3 is 240 and 721 / 3 is above it).
IsVeryLight(p) == p.r + p.g + p.b > 3 * 240

\* Variant: the threshold test written with >=.
RemoveLightPixel_Inclusive(p) ==
    IF p.r + p.g + p.b >= 3 * 240 THEN [p EXCEPT !.a = 0] ELSE p

\* The body of the loop over data: a very light pixel gets alpha 0.
RemoveLightPixel(p) == IF IsVeryLight(p) THEN [p EXCEPT !.a = 0] ELSE p

\* removeBackgroundClientSide between getImageData and putImageData.
RemoveLightPixels(imageData) ==
    [imageData EXCEPT !.data = [i \in DOMAIN imageData.data |->
                                   RemoveLightPixel(imageData.data[i])]]

\* The pixels the remover is tried on: channel values around the threshold, three alphas.
ThresholdChannels == {0, 240, 241, 255}
ThresholdAlphas == {0, 128, 255}
ThresholdPixels ==
    {Pixel(r, g, b, a) : r \in ThresholdChannels, g \in ThresholdChannels,
                         b \in ThresholdChannels, a \in ThresholdAlphas}

\* A 3x3 image: a 250,250,250 border around one solid red pixel.
BorderedRed ==
    LET w == Grey(250)
        c == Pixel(255, 0, 0, 255)
    IN ImageData(3, 3, <<w, w, w, w, c, w, w, w, w>>)

ThresholdImages ==
    {ImageData(1, 1, <<p>>) : p \in ThresholdPixels}
    \cup {ImageData(2, 1, <<p, Pixel(240, 240, q, 255)>>) :
              p \in ThresholdPixels, q \in ThresholdChannels}
    \cup {BorderedRed}

Calc_RemoveLightPixels ==
    /\ calc = NoCalc
    /\ \E imageData \in ThresholdImages :
         calc' = [fn |-> "removeLightPixels", imageData |-> imageData,
                  out |-> RemoveLightPixels(imageData)]
    /\ UNCHANGED <<pipeVars, page, comp, suspended>>

\* The caller has used the result.
Calc_Return ==
    /\ calc # NoCalc
    /\ calc' = NoCalc
    /\ UNCHANGED <<pipeVars, page, comp, suspended>>

\* Variant: the aspect-ratio comparisons written with >= and <=.
detectGarmentTypeByAspectRatio_Inclusive(width, height) ==
    IF 10 * width >= 12 * height THEN "likelyTop"
    ELSE IF 10 * width <= 8 * height THEN "likelyBottom"
    ELSE "likelyFullBody"

\* width / height > 1.2 and < 0.8, cleared of the division (height > 0, and the
\* quotient of two image dimensions is the double nearest the ratio, so it equals
\* the literal exactly when the ratio does).
detectGarmentTypeByAspectRatio(width, height) ==
    IF 10 * width > 12 * height THEN "likelyTop"
    ELSE IF 10 * width < 8 * height THEN "likelyBottom"
    ELSE "likelyFullBody"

\* Image dimensions the classifier is tried on: the boundary ratios 6:5 and 4:5 and
\* their neighbours, among others.
Dimensions == {1, 2, 3, 4, 5, 6, 7, 8, 10, 12, 300, 599, 600, 601, 720, 721, 480, 479}

Calc_AspectRatio ==
    /\ calc = NoCalc
    /\ \E width \in Dimensions, height \in Dimensions :
         calc' = [fn |-> "detectGarmentTypeByAspectRatio", width |-> width,
                  height |-> height,
                  out |-> detectGarmentTypeByAspectRatio(width, height)]
    /\ UNCHANGED <<pipeVars, page, comp, suspended>>

\* A JavaScript number that is a ratio of integers, kept exact.
Ratio(num, den) == [num |-> num, den |-> den]
Less(p, q) == p.num * q.den < q.num * p.den
Plus(p, q) == Ratio(p.num * q.den + q.num * p.den, p.den * q.den)
Minus(p, q) == Ratio(p.num * q.den - q.num * p.den, p.den * q.den)
Twice(p) == Ratio(2 * p.num, p.den)

\* |a - b| of two channel values.
AbsDiff(a, b) == IF a >= b THEN a - b ELSE b - a

\* rDiff + gDiff + bDiff between two pixels.
ChannelDiff(p, q) == AbsDiff(p.r, q.r) + AbsDiff(p.g, q.g) + AbsDiff(p.b, q.b)

\* gradient > 30, with gradient = sqrt(dx^2 + dy^2); squared on both sides.
IsEdge(imageData, x, y) ==
    LET dx == ChannelDiff(PixelAt(imageData, x, y), PixelAt(imageData, x + 1, y))
        dy == ChannelDiff(PixelAt(imageData, x, y), PixelAt(imageData, x, y + 1))
    IN dx * dx + dy * dy > 30 * 30

\* edges / pixels, or 0 when the half has no pixel.
Density(edges, pixels) == IF pixels > 0 THEN Ratio(edges, pixels) ELSE Ratio(0, 1)

\* analyzeEdgeDensity: the share of edge pixels among the interior pixels of the top
\* half (y < floor(height / 2)) and of the bottom half.
analyzeEdgeDensity(imageData) ==
    LET width == imageData.width
        height == imageData.height
        topHalfHeight == height \div 2
        interior == {xy \in (1 .. width - 2) \X (1 .. height - 2) : TRUE}
        top == {xy \in interior : xy[2] < topHalfHeight}
        bottom == interior \ top
        edges(half) == Cardinality({xy \in half : IsEdge(imageData, xy[1], xy[2])})
    IN [topEdgeDensity |-> Density(edges(top), Cardinality(top)),
        bottomEdgeDensity |-> Density(edges(bottom), Cardinality(bottom))]

\* Variant: the edge term without Math.min(..., 0.7).
EdgeMatch_Uncapped(own, other) ==
    IF Less(other, own) THEN Twice(Minus(own, other)) ELSE Ratio(0, 1)

\* Variant: the two densities taken in the wrong order.
EdgeMatch_Swapped(own, other) ==
    IF Less(own, other)
    THEN (IF Less(Twice(Minus(other, own)), Ratio(7, 10))
          THEN Twice(Minus(other, own)) ELSE Ratio(7, 10))
    ELSE Ratio(0, 1)

\* own > other ? Math.min((own - other) * 2, 0.7) : 0
EdgeMatch(own, other) ==
    IF Less(other, own)
    THEN (IF Less(Twice(Minus(own, other)), Ratio(7, 10))
          THEN Twice(Minus(own, other)) ELSE Ratio(7, 10))
    ELSE Ratio(0, 1)

\* Variant: the aspect ratio weighs as much as a half.
AspectRatioMatch_Half(aspectRatioType, userSelectedType) ==
    IF \/ userSelectedType = "top" /\ aspectRatioType = "likelyTop"
       \/ userSelectedType = "bottom" /\ aspectRatioType = "likelyBottom"
    THEN Ratio(5, 10) ELSE Ratio(0, 1)

\* aspectRatioType === 'likelyTop' ? 0.3 : 0 (resp. 'likelyBottom')
AspectRatioMatch(aspectRatioType, userSelectedType) ==
    IF \/ userSelectedType = "top" /\ aspectRatioType = "likelyTop"
       \/ userSelectedType = "bottom" /\ aspectRatioType = "likelyBottom"
    THEN Ratio(3, 10) ELSE Ratio(0, 1)

\* confidence as the two `if (userSelectedType === ...)` blocks leave it.
Confidence(userSelectedType, aspectRatioType, edgeDensity) ==
    IF userSelectedType = "top"
    THEN Plus(AspectRatioMatch(aspectRatioType, userSelectedType),
              EdgeMatch(edgeDensity.topEdgeDensity, edgeDensity.bottomEdgeDensity))
    ELSE IF userSelectedType = "bottom"
    THEN Plus(AspectRatioMatch(aspectRatioType, userSelectedType),
              EdgeMatch(edgeDensity.bottomEdgeDensity, edgeDensity.topEdgeDensity))
    ELSE Ratio(0, 1)

\* confidence > 0.6
IsConfident(confidence) == Less(Ratio(6, 10), confidence)

DetectOutcomes == {"ok", "load-error", "no-context"}

\* Variant: the image is loaded before the fullBody/completeOutfit shortcut is taken.
detectSingleGarment_LoadFirst(imageData, userSelectedType, outcome) ==
    IF outcome # "ok"
    THEN [isSingleGarment |-> FALSE, confidence |-> Ratio(0, 1), detectedType |-> "undefined"]
    ELSE IF userSelectedType \in {"fullBody", "completeOutfit"}
    THEN [isSingleGarment |-> TRUE, confidence |-> Ratio(1, 1), detectedType |-> "fullBody"]
    ELSE LET confidence ==
                 Confidence(userSelectedType,
                            detectGarmentTypeByAspectRatio(imageData.width, imageData.height),
                            analyzeEdgeDensity(imageData))
         IN [isSingleGarment |-> IsConfident(confidence),
             confidence |-> confidence,
             detectedType |-> IF IsConfident(confidence) THEN userSelectedType
                              ELSE "undefined"]

\* detectSingleGarment: the shortcut for fullBody and completeOutfit, then the image is
\* loaded (the catch answers confidence 0), then the two signals are combined.
detectSingleGarment(imageData, userSelectedType, outcome) ==
    IF userSelectedType \in {"fullBody", "completeOutfit"}
    THEN [isSingleGarment |-> TRUE, confidence |-> Ratio(1, 1), detectedType |-> "fullBody"]
    ELSE IF outcome # "ok"
    THEN [isSingleGarment |-> FALSE, confidence |-> Ratio(0, 1), detectedType |-> "undefined"]
    ELSE LET confidence ==
                 Confidence(userSelectedType,
                            detectGarmentTypeByAspectRatio(imageData.width, imageData.height),
                            analyzeEdgeDensity(imageData))
         IN [isSingleGarment |-> IsConfident(confidence),
             confidence |-> confidence,
             detectedType |-> IF IsConfident(confidence) THEN userSelectedType
                              ELSE "undefined"]

\* The pixels of a width x height image that some interior pixel's gradient reads.
GradientPixels(width, height) ==
    {y * width + x + 1 : x \in 1 .. width - 1, y \in 1 .. height - 1}
    \ {(height - 1) * width + (width - 1) + 1}

\* The grey images of a size that differ in those pixels, the rest being black.
GreyImages(width, height, greys) ==
    {ImageData(width, height,
               [i \in 1 .. width * height |->
                   IF i \in GradientPixels(width, height) THEN Grey(f[i]) ELSE Grey(0)]) :
         f \in [GradientPixels(width, height) -> greys]}

\* The images the classifier is tried on: square ones with a step of 8 (an edge only
\* when it is there in both directions), wide and tall ones, and ones with no interior.
EdgeImages ==
    GreyImages(4, 4, {0, 8, 255})
    \cup GreyImages(5, 4, {0, 255})
    \cup GreyImages(3, 4, {0, 8, 255})
    \cup GreyImages(3, 3, {0, 255})
    \cup GreyImages(2, 2, {0, 255})
    \cup GreyImages(1, 1, {0})

Calc_AnalyzeEdgeDensity ==
    /\ calc = NoCalc
    /\ \E imageData \in EdgeImages :
         calc' = [fn |-> "analyzeEdgeDensity", imageData |-> imageData,
                  out |-> analyzeEdgeDensity(imageData)]
    /\ UNCHANGED <<pipeVars, page, comp, suspended>>

Calc_DetectSingleGarment ==
    /\ calc = NoCalc
    /\ \E imageData \in EdgeImages, userSelectedType \in GarmentTypes,
          outcome \in DetectOutcomes :
         calc' = [fn |-> "detectSingleGarment", imageData |-> imageData,
                  userSelectedType |-> userSelectedType, outcome |-> outcome,
                  out |-> detectSingleGarment(imageData, userSelectedType, outcome)]
    /\ UNCHANGED <<pipeVars, page, comp, suspended>>

\* Edge densities two images of the same shape can have.
Densities == {Ratio(0, 1), Ratio(1, 4), Ratio(1, 3), Ratio(1, 2), Ratio(3, 4), Ratio(1, 1)}
EdgeDensities == [topEdgeDensity : Densities, bottomEdgeDensity : Densities]

\* The confidence of two images of one aspect ratio, for one selected type.
Calc_ConfidencePair ==
    /\ calc = NoCalc
    /\ \E userSelectedType \in {"top", "bottom"},
          aspectRatioType \in {"likelyTop", "likelyBottom", "likelyFullBody"},
          first \in EdgeDensities, second \in EdgeDensities :
         calc' = [fn |-> "confidencePair", userSelectedType |-> userSelectedType,
                  aspectRatioType |-> aspectRatioType,
                  first |-> first, second |-> second,
                  outFirst |-> Confidence(userSelectedType, aspectRatioType, first),
                  outSecond |-> Confidence(userSelectedType, aspectRatioType, second)]
    /\ UNCHANGED <<pipeVars, page, comp, suspended>>

\* The garment images segmentation is tried on: several shapes, as data: URLs.
SegmentImages ==
    GreyImages(3, 4, {0, 8, 255}) \cup GreyImages(5, 4, {0, 255}) \cup GreyImages(2, 2, {0, 255})

Calc_GetSegmentedGarment ==
    /\ calc = NoCalc
    /\ \E imageData \in SegmentImages, garmentType \in GarmentTypes,
          useAdvanced \in BOOLEAN, includeDebug \in BOOLEAN, outcome \in SegmentOutcomes :
         LET imageDataUrl == [scheme |-> "data", mime |-> PNG, img |-> imageData]
         IN calc' = [fn |-> "getSegmentedGarment", imageDataUrl |-> imageDataUrl,
                     garmentType |-> garmentType, useAdvanced |-> useAdvanced,
                     includeDebug |-> includeDebug, outcome |-> outcome,
                     out |-> getSegmentedGarment(imageDataUrl, garmentType, useAdvanced,
                                                 includeDebug, outcome)]
    /\ UNCHANGED <<pipeVars, page, comp, suspended>>

\* Everything a call of preprocessImages holds: its parameters, the let and const
\* bindings of its body, and the activation of removeBackground it awaits.  All of it
\* is declared inside the function; the modules declare no variable of their own.
Locals ==
    [pc |-> pc, options |-> options, personImageFile |-> personImageFile,
     garmentImageFile |-> garmentImageFile, steps |-> steps,
     personImageDataUrl |-> personImageDataUrl,
     garmentImageDataUrl |-> garmentImageDataUrl, debugInfo |-> debugInfo,
     thrown |-> thrown, bundle |-> bundle, rb |-> rb, hist |-> hist]

\* The locals of a call that has just been made (see Enter).
Called(person, garment, opts) ==
    [pc |-> "decode", options |-> opts, personImageFile |-> person,
     garmentImageFile |-> garment, steps |-> StepsInit,
     personImageDataUrl |-> EmptyUrl, garmentImageDataUrl |-> EmptyUrl,
     debugInfo |-> DebugInfoInit, thrown |-> "", bundle |-> NoBundle,
     rb |-> RbIdle, hist |-> HistInit]

\* No second call.
NoRequest ==
    [pc |-> "idle", options |-> NoOptions, personImageFile |-> NoFile,
     garmentImageFile |-> NoFile, steps |-> StepsInit,
     personImageDataUrl |-> EmptyUrl, garmentImageDataUrl |-> EmptyUrl,
     debugInfo |-> DebugInfoInit, thrown |-> "", bundle |-> NoBundle,
     rb |-> RbIdle, hist |-> HistInit]

\* Variant: steps is one object of the module, written by whichever call runs.
Resume_SharedSteps(request) ==
    /\ pc' = request.pc
    /\ options' = request.options
    /\ personImageFile' = request.personImageFile
    /\ garmentImageFile' = request.garmentImageFile
    /\ steps' = steps
    /\ personImageDataUrl' = request.personImageDataUrl
    /\ garmentImageDataUrl' = request.garmentImageDataUrl
    /\ debugInfo' = request.debugInfo
    /\ thrown' = request.thrown
    /\ bundle' = request.bundle
    /\ rb' = request.rb
    /\ hist' = request.hist

\* The continuation of a call runs in the closure of that call: const steps = {...},
\* let personImageDataUrl, let garmentImageDataUrl, debugInfo are its own bindings.
Resume(request) ==
    /\ pc' = request.pc
    /\ options' = request.options
    /\ personImageFile' = request.personImageFile
    /\ garmentImageFile' = request.garmentImageFile
    /\ steps' = request.steps
    /\ personImageDataUrl' = request.personImageDataUrl
    /\ garmentImageDataUrl' = request.garmentImageDataUrl
    /\ debugInfo' = request.debugInfo
    /\ thrown' = request.thrown
    /\ bundle' = request.bundle
    /\ rb' = request.rb
    /\ hist' = request.hist

\* The running call is at an await (or has returned) and the event loop runs the
\* continuation of the other call.  The steps of the pipeline are cut at its awaits,
\* some of them finer, so a switch between any two steps covers every interleaving.
EventLoop_Switch ==
    /\ pc # "idle"
    /\ suspended.pc # "idle"
    /\ Resume(suspended)
    /\ suspended' = Locals
    /\ UNCHANGED <<page, comp, calc>>

(***************************************************************************)
(* lib/backgroundCompositing.ts                                            *)
(***************************************************************************)

\* The locals of a preprocessImages request: every pipeline variable but rb and hist.
requestVars == <<pc, options, personImageFile, garmentImageFile, steps,
                 personImageDataUrl, garmentImageDataUrl, debugInfo, thrown, bundle>>

\* loadImage resolves with the image or rejects with the error event (no message).
LoadOutcomes == {"ok", "error"}
\* canvas.getContext('2d') answers a context or null.
ContextOutcomes == {"2d", "null"}
\* canvas.toBlob hands a blob or null to its callback.
BlobOutcomes == {"ok", "no-blob"}

CanvasContextError == "Could not get canvas context"
CanvasBlobError == "Failed to convert canvas to blob"
CompositingFailed == "Background compositing failed"

\* Numbers that need not be whole: canvasWidth, canvasHeight, the drawing rectangles.
Whole(n) == Ratio(n, 1)
Times(p, q) == Ratio(p.num * q.num, p.den * q.den)
Over(p, q) == Ratio(p.num * q.den, p.den * q.num)
Half(p) == Ratio(p.num, 2 * p.den)
Same(p, q) == p.num * q.den = q.num * p.den
Max(p, q) == IF Less(p, q) THEN q ELSE p
\* Assigning to canvas.width or canvas.height keeps the whole part.
Truncate(p) == p.num \div p.den

\* No background image: the white backdrop, or a template that did not load.
NoBackdrop == [width |-> 0, height |-> 0]
Loaded(backgroundImg) == backgroundImg # NoBackdrop

\* The sizes /backgrounds/studio.jpg and /backgrounds/fitting-room.jpg may have.
Backdrops == {[width |-> 4, height |-> 2], [width |-> 2, height |-> 4],
              [width |-> 3, height |-> 3], [width |-> 5, height |-> 3]}
\* loadImage(imagePath) resolves with the template or rejects.
BackdropOutcomes ==
    {[status |-> "ok", img |-> b] : b \in Backdrops}
        \cup {[status |-> "error", img |-> NoBackdrop]}

\* Variant: a template that fails to load makes loadBackgroundImage reject.
LoadBackgroundSettles_Uncaught(backgroundType, outcome) ==
    IF backgroundType # "white" /\ outcome.status = "error" THEN "rejected" ELSE "resolved"

\* loadBackgroundImage runs wholly inside try/catch: the promise always resolves.
LoadBackgroundSettles(backgroundType, outcome) == "resolved"

\* loadBackgroundImage: null for 'white' and for a template that failed to load.
loadBackgroundImage(backgroundType, outcome) ==
    IF backgroundType = "white" \/ outcome.status = "error" THEN NoBackdrop ELSE outcome.img

\* Variant: the scan looks for fully transparent pixels only.
AlphaBelow255_ZeroOnly(alpha) == alpha = 0

\* data[i] < 255 for the alpha byte of a pixel.
AlphaBelow255(alpha) == alpha < 255

\* The loop over the alpha bytes, from pixel i on, leaving at the first hit.
RECURSIVE ScanAlpha(_, _)
ScanAlpha(data, i) ==
    IF i > Len(data) THEN FALSE
    ELSE IF AlphaBelow255(data[i].a) THEN TRUE
    ELSE ScanAlpha(data, i + 1)

HasTransparency(img) == ScanAlpha(img.data, 1)

\* canvasWidth and canvasHeight: those of the foreground, or with a loaded template
\* the foreground's height (width) and the template's aspect ratio. The products and
\* quotients are taken exactly.
CanvasSize(foregroundWidth, foregroundHeight, backgroundImg) ==
    IF ~Loaded(backgroundImg)
    THEN [width |-> Whole(foregroundWidth), height |-> Whole(foregroundHeight)]
    ELSE LET bgAspect == Ratio(backgroundImg.width, backgroundImg.height)
             fgAspect == Ratio(foregroundWidth, foregroundHeight)
         IN IF Less(fgAspect, bgAspect)
            THEN [width  |-> Times(Whole(foregroundHeight), bgAspect),
                  height |-> Whole(foregroundHeight)]
            ELSE [width  |-> Whole(foregroundWidth),
                  height |-> Over(Whole(foregroundWidth), bgAspect)]

\* ctx.fillRect(0, 0, canvasWidth, canvasHeight) with fillStyle '#FFFFFF'.
FillWhite(size) ==
    [op |-> "fillRect", fill |-> "#FFFFFF", x |-> Whole(0), y |-> Whole(0),
     width |-> size.width, height |-> size.height]

\* ctx.drawImage(image, x, y, width, height), the image centred on the canvas.
DrawCentred(image, size, width, height) ==
    [op |-> "drawImage", fill |-> image,
     x |-> Half(Minus(size.width, width)), y |-> Half(Minus(size.height, height)),
     width |-> width, height |-> height]

\* "Draw background": white, the template scaled by the larger of the two ratios, or
\* white again when the template failed to load.
DrawBackground(backgroundType, backgroundImg, size) ==
    IF backgroundType = "white" THEN FillWhite(size)
    ELSE IF Loaded(backgroundImg)
    THEN LET scale == Max(Over(size.width, Whole(backgroundImg.width)),
                          Over(size.height, Whole(backgroundImg.height)))
         IN DrawCentred("background", size,
                        Times(Whole(backgroundImg.width), scale),
                        Times(Whole(backgroundImg.height), scale))
    ELSE FillWhite(size)

DrawForeground(size, foregroundWidth, foregroundHeight) ==
    DrawCentred("foreground", size, Whole(foregroundWidth), Whole(foregroundHeight))

NoCanvas == [width |-> 0, height |-> 0]

NoCompositingResult ==
    [compositedImageDataUrl |-> EmptyUrl, compositedImageFile |-> NoFile,
     success |-> FALSE, error |-> ""]

\* Variant: the bottom band starts one row late.
ShouldInclude_Exclusive(garmentType, y, height) ==
    CASE garmentType = "top" -> y < (height * 6) \div 10
      [] garmentType = "bottom" -> y > (height * 4) \div 10
      [] OTHER -> TRUE

\* shouldInclude of the mask loop: topRegionEnd = Math.floor(height * 0.6),
\* bottomRegionStart = Math.floor(height * 0.4).
ShouldInclude(garmentType, y, height) ==
    CASE garmentType = "top" -> y < (height * 6) \div 10
      [] garmentType = "bottom" -> y >= (height * 4) \div 10
      [] OTHER -> TRUE

\* segmentGarmentAdvanced: the image on a canvas of its own size, alpha 0 where the
\* mask is 0; the catch answers success false.
segmentGarmentAdvanced(imageDataUrl, garmentType, outcome) ==
    IF outcome # "ok"
    THEN [segmentedImageDataUrl |-> EmptyUrl, success |-> FALSE,
          error |-> IF outcome = "no-context" THEN "Could not get canvas context"
                    ELSE "Advanced segmentation failed"]
    ELSE LET imageData == imageDataUrl.img
             masked(i) == IF ShouldInclude(garmentType, (i - 1) \div imageData.width,
                                           imageData.height)
                          THEN imageData.data[i]
                          ELSE [imageData.data[i] EXCEPT !.a = 0]
         IN [segmentedImageDataUrl |->
                 [scheme |-> "data", mime |-> PNG,
                  img |-> [imageData EXCEPT
                             !.data = [i \in DOMAIN imageData.data |-> masked(i)]]],
             success |-> TRUE, error |-> ""]

\* The images the mask is tried on: heights of which 60% and 40% are and are not whole.
MaskImages ==
    GreyImages(3, 4, {0, 255}) \cup GreyImages(2, 5, {0, 255}) \cup GreyImages(2, 2, {0, 255})

Calc_SegmentGarmentAdvanced ==
    /\ calc = NoCalc
    /\ \E imageData \in MaskImages, garmentType \in GarmentTypes,
          outcome \in SegmentOutcomes :
         LET imageDataUrl == [scheme |-> "data", mime |-> PNG, img |-> imageData]
         IN calc' = [fn |-> "segmentGarmentAdvanced", imageDataUrl |-> imageDataUrl,
                     garmentType |-> garmentType, outcome |-> outcome,
                     out |-> segmentGarmentAdvanced(imageDataUrl, garmentType, outcome)]
    /\ UNCHANGED <<pipeVars, page, comp, suspended>>

\* No compositing in progress.
CompIdle ==
    [pc |-> "idle", imageDataUrl |-> EmptyUrl, backgroundType |-> "white",
     foregroundImg |-> NoImg, foregroundWidth |-> 0, foregroundHeight |-> 0,
     tempCtx |-> "none", hasTransparency |-> FALSE, removalPass |-> "none",
     backdrop |-> "none", backgroundImg |-> NoBackdrop,
     canvasSize |-> [width |-> Whole(0), height |-> Whole(0)],
     compositeCanvas |-> NoCanvas, drawn |-> <<>>, thrown |-> "",
     result |-> NoCompositingResult]

\* A generated image: a few pixels, each with its alpha.
Generated(width, height, alphas) ==
    [subject |-> "result", bg |-> "original", width |-> width, height |-> height,
     data |-> [i \in 1 .. width * height |-> Pixel(255, 255, 255, alphas[i])]]

\* Alpha channels of n pixels: opaque, all but the last opaque (the last at 254),
\* the first clear, all clear.
AlphaChannels(n) ==
    {[i \in 1 .. n |-> 255],
     [i \in 1 .. n |-> IF i = n THEN 254 ELSE 255],
     [i \in 1 .. n |-> IF i = 1 THEN 0 ELSE 255],
     [i \in 1 .. n |-> 0]}

GeneratedSizes == {<<2, 2>>, <<4, 2>>, <<2, 4>>}

GeneratedImages ==
    UNION {{Generated(d[1], d[2], alphas) : alphas \in AlphaChannels(d[1] * d[2])} :
              d \in GeneratedSizes}

\* throw inside the outer try.
CompThrow(message) == [comp EXCEPT !.pc = "catch", !.thrown = message]

compositeImageWithBackground_Call ==
    /\ comp.pc = "idle"
    /\ pc = "idle"
    /\ \E img \in GeneratedImages, backgroundType \in BackgroundTypes :
         comp' = [CompIdle EXCEPT !.pc = "loadForeground",
                                  !.imageDataUrl = [scheme |-> "data", mime |-> PNG,
                                                    img |-> img],
                                  !.backgroundType = backgroundType]
    /\ UNCHANGED <<pipeVars, page, calc, suspended>>

\* let foregroundImg = await loadImage(imageDataUrl), and its width and height.
Composite_LoadForeground ==
    /\ comp.pc = "loadForeground"
    /\ \E outcome \in LoadOutcomes :
         comp' = IF outcome = "error" THEN CompThrow("")
                 ELSE [comp EXCEPT !.pc = "scan",
                                   !.foregroundImg = comp.imageDataUrl.img,
                                   !.foregroundWidth = comp.imageDataUrl.img.width,
                                   !.foregroundHeight = comp.imageDataUrl.img.height]
    /\ UNCHANGED <<pipeVars, page, calc, suspended>>

\* if (tempCtx) { ... hasTransparency ... if (!hasTransparency) { the removal pass } }
Composite_Scan ==
    /\ comp.pc = "scan"
    /\ \E tempCtx \in ContextOutcomes :
         comp' = IF tempCtx = "null"
                 THEN [comp EXCEPT !.pc = "background", !.tempCtx = tempCtx]
                 ELSE LET hasTransparency == HasTransparency(comp.foregroundImg)
                      IN [comp EXCEPT !.tempCtx = tempCtx,
                                      !.hasTransparency = hasTransparency,
                                      !.removalPass = IF hasTransparency THEN "none"
                                                      ELSE "entered",
                                      !.pc = IF hasTransparency THEN "background"
                                             ELSE "removal"]
    /\ UNCHANGED <<pipeVars, page, calc, suspended>>

\* dataUrlToFile(imageDataUrl, 'gemini-output.png'), then removeBackground(imageFile, false);
\* the inner catch goes on with the original image.
Composite_RemovalStart ==
    /\ comp.pc = "removal"
    /\ \E outcome \in EncodeOutcomes :
         IF dataUrlToFileFails(comp.imageDataUrl, "gemini-output.png", outcome)
         THEN /\ comp' = [comp EXCEPT !.pc = "background", !.removalPass = "error"]
              /\ UNCHANGED rb
         ELSE /\ comp' = [comp EXCEPT !.pc = "removalWait"]
              /\ rb' = RbCall(dataUrlToFile(comp.imageDataUrl, "gemini-output.png"), FALSE)
    /\ UNCHANGED <<requestVars, hist, page, calc, suspended>>

\* if (bgRemovalResult.success && bgRemovalResult.imageDataUrl) the foreground is loaded
\* anew from the result; else, and on any error, the original image stays.
Composite_RemovalReturn ==
    /\ comp.pc = "removalWait"
    /\ rb.pc \in {"return", "rejected"}
    /\ \E outcome \in LoadOutcomes :
         comp' = IF rb.pc = "rejected"
                 THEN [comp EXCEPT !.pc = "background", !.removalPass = "error"]
                 ELSE IF ~(rb.result.success /\ Truthy(rb.result.imageDataUrl))
                 THEN [comp EXCEPT !.pc = "background", !.removalPass = "failed"]
                 ELSE IF outcome = "error"
                 THEN [comp EXCEPT !.pc = "background", !.removalPass = "error"]
                 ELSE [comp EXCEPT !.pc = "background", !.removalPass = "removed",
                                   !.foregroundImg = rb.result.imageDataUrl.img,
                                   !.foregroundWidth = rb.result.imageDataUrl.img.width,
                                   !.foregroundHeight = rb.result.imageDataUrl.img.height]
    /\ rb' = [rb EXCEPT !.pc = "idle"]
    /\ UNCHANGED <<requestVars, hist, page, calc, suspended>>

\* canvasWidth, canvasHeight and what is to be drawn behind the foreground.
Backdrop(backgroundImg) ==
    [comp EXCEPT !.pc = "draw",
                 !.backgroundImg = backgroundImg,
                 !.canvasSize = CanvasSize(comp.foregroundWidth, comp.foregroundHeight,
                                           backgroundImg)]

\* "Determine canvas dimensions" and "Load or create background": nothing is loaded for
\* 'white'; a template is awaited from loadBackgroundImage.
Composite_LoadBackground ==
    /\ comp.pc = "background"
    /\ IF comp.backgroundType = "white"
       THEN comp' = Backdrop(NoBackdrop)
       ELSE \E outcome \in BackdropOutcomes :
              comp' = IF LoadBackgroundSettles(comp.backgroundType, outcome) # "resolved"
                      THEN [CompThrow("") EXCEPT !.backdrop = outcome.status]
                      ELSE [Backdrop(loadBackgroundImage(comp.backgroundType, outcome))
                              EXCEPT !.backdrop = outcome.status]
    /\ UNCHANGED <<pipeVars, page, calc, suspended>>

\* The composite canvas: its size, its context, the background, the centred foreground.
Composite_Draw ==
    /\ comp.pc = "draw"
    /\ \E ctx \in ContextOutcomes :
         LET compositeCanvas == [width  |-> Truncate(comp.canvasSize.width),
                                 height |-> Truncate(comp.canvasSize.height)]
         IN comp' = IF ctx = "null"
                    THEN [CompThrow(CanvasContextError) EXCEPT
                            !.compositeCanvas = compositeCanvas]
                    ELSE [comp EXCEPT
                            !.pc = "toFile",
                            !.compositeCanvas = compositeCanvas,
                            !.drawn = <<DrawBackground(comp.backgroundType,
                                                       comp.backgroundImg, comp.canvasSize),
                                        DrawForeground(comp.canvasSize, comp.foregroundWidth,
                                                       comp.foregroundHeight)>>]
    /\ UNCHANGED <<pipeVars, page, calc, suspended>>

\* canvasToDataUrl and canvasToFile(compositeCanvas, `composited-${backgroundType}.png`).
Composite_ToFile ==
    /\ comp.pc = "toFile"
    /\ \E outcome \in BlobOutcomes :
         comp' = IF outcome = "no-blob" THEN CompThrow(CanvasBlobError)
                 ELSE LET composite == [subject |-> "composite", bg |-> comp.backgroundType,
                                        width |-> comp.compositeCanvas.width,
                                        height |-> comp.compositeCanvas.height,
                                        layers |-> comp.drawn]
                          fileName == "composited-" \o comp.backgroundType \o ".png"
                      IN [comp EXCEPT
                            !.pc = "return",
                            !.result = [compositedImageDataUrl |->
                                            [scheme |-> "data", mime |-> PNG,
                                             img |-> composite],
                                        compositedImageFile |->
                                            [ref |-> "new:" \o fileName, name |-> fileName,
                                             type |-> PNG, img |-> composite],
                                        success |-> TRUE, error |-> ""]]
    /\ UNCHANGED <<pipeVars, page, calc, suspended>>

\* catch (error): success false, error.message || 'Background compositing failed'.
Composite_Catch ==
    /\ comp.pc = "catch"
    /\ comp' = [comp EXCEPT
                  !.pc = "return",
                  !.result = [compositedImageDataUrl |-> EmptyUrl,
                              compositedImageFile |->
                                  [ref |-> "new:error.png", name |-> "error.png",
                                   type |-> "", img |-> NoImg],
                              success |-> FALSE,
                              error |-> IF comp.thrown = "" THEN CompositingFailed
                                        ELSE comp.thrown]]
    /\ UNCHANGED <<pipeVars, page, calc, suspended>>

\* The caller has taken the result.
Composite_Discard ==
    /\ comp.pc = "return"
    /\ comp' = CompIdle
    /\ rb' = RbIdle
    /\ hist' = HistInit
    /\ UNCHANGED <<requestVars, page, calc, suspended>>

PipeInit ==
    /\ suspended = NoRequest
    /\ pc = "idle"
    /\ options = NoOptions
    /\ personImageFile = NoFile
    /\ garmentImageFile = NoFile
    /\ steps = StepsInit
    /\ debugInfo = DebugInfoInit
    /\ personImageDataUrl = EmptyUrl
    /\ garmentImageDataUrl = EmptyUrl
    /\ thrown = ""
    /\ bundle = NoBundle
    /\ rb = RbIdle
    /\ hist = HistInit

Init == PipeInit /\ page = PageInit /\ comp = CompIdle /\ calc = NoCalc

Pipeline ==
    \/ Decode
    \/ PersonBg_Start
    \/ RemoveBackground_Replicate
    \/ RemoveBackground_Fallback
    \/ PersonBg_Return
    \/ GarmentBg_Start
    \/ GarmentBg_Return
    \/ Segment
    \/ Gate
    \/ Encode
    \/ Verify
    \/ Catch

Next == preprocessImages_Call \/ Pipeline \/ Discard

\* The library called directly, with every combination of options.
Spec == Init /\ [][Next]_vars

\* The same, where a call that can take its next step does take it: every await of the
\* pipeline settles and its continuation is run.
LiveSpec == Spec /\ WF_vars(Pipeline)

PageSpecInit ==
    /\ PipeInit
    /\ \E a \in BOOLEAN, sub \in Subscriptions :
         page = [PageInit EXCEPT !.isAuthenticated = a, !.subscription = sub]
    /\ comp = CompIdle
    /\ calc = NoCalc

PageNext ==
    \/ handlePersonImageSelect
    \/ handleOutfitImageSelect
    \/ handleGarmentSelect
    \/ handleGenerate_Start
    \/ Pipeline
    \/ handleGenerate_Check
    \/ handleGenerate_Send
    \/ handleGenerate_Response
    \/ handleGenerate_Composite

\* The page: uploads, garment selection and handleGenerate driving the pipeline.
PageSpec == PageSpecInit /\ [][PageNext]_vars

\* The page with both images uploaded and a top selected by a subscriber.
ResultInit ==
    /\ PipeInit
    /\ page = [PageInit EXCEPT !.personImage = Upload("person", PNG),
                               !.outfitImage = Upload("garment", JPEG),
                               !.garmentSelection = GarmentSelect(NoSelection, "top")]
    /\ comp = CompIdle
    /\ calc = NoCalc

ResultNext ==
    \/ handleGenerate_Start
    \/ Pipeline
    \/ handleGenerate_Check
    \/ handleGenerate_Send
    \/ handleGenerate_Response
    \/ handleGenerate_Composite
    \/ handleBackgroundChange
    \/ BackgroundChange_Settled

\* Generate, Retry and the background select on the result of the page.
ResultSpec == ResultInit /\ [][ResultNext]_vars

\* The options of the two calls: one asks for every stage and the debug record, the
\* other for the person's background removal only.
PairOptions(everyStage) ==
    [removePersonBackground |-> TRUE, removeGarmentBackground |-> everyStage,
     segmentGarment |-> everyStage, garmentType |-> "top",
     useAdvancedSegmentation |-> everyStage, includeDebug |-> everyStage]

\* Two calls have just been made, each with its own images and options.
PairInit ==
    /\ pc = "decode"
    /\ options = PairOptions(TRUE)
    /\ personImageFile = Upload("person", PNG)
    /\ garmentImageFile = Upload("garment", JPEG)
    /\ steps = StepsInit
    /\ debugInfo = DebugInfoInit
    /\ personImageDataUrl = EmptyUrl
    /\ garmentImageDataUrl = EmptyUrl
    /\ thrown = ""
    /\ bundle = NoBundle
    /\ rb = RbIdle
    /\ hist = HistInit
    /\ suspended = Called(Upload("person", JPEG), Upload("garment", PNG),
                          PairOptions(FALSE))
    /\ page = PageInit
    /\ comp = CompIdle
    /\ calc = NoCalc

PairNext == Pipeline \/ EventLoop_Switch

\* Two simultaneous calls of preprocessImages on the one thread of the page.
PairSpec == PairInit /\ [][PairNext]_vars

CalcNext ==
    \/ Calc_RemoveLightPixels
    \/ Calc_AspectRatio
    \/ Calc_AnalyzeEdgeDensity
    \/ Calc_DetectSingleGarment
    \/ Calc_ConfidencePair
    \/ Calc_GetSegmentedGarment
    \/ Calc_SegmentGarmentAdvanced
    \/ Calc_Return

\* The synchronous image functions, each called on its own with sample inputs.
CalcSpec == Init /\ [][CalcNext]_vars

CompositeNext ==
    \/ compositeImageWithBackground_Call
    \/ Composite_LoadForeground
    \/ Composite_Scan
    \/ Composite_RemovalStart
    \/ RemoveBackground_Replicate
    \/ RemoveBackground_Fallback
    \/ Composite_RemovalReturn
    \/ Composite_LoadBackground
    \/ Composite_Draw
    \/ Composite_ToFile
    \/ Composite_Catch
    \/ Composite_Discard

\* compositeImageWithBackground called directly, on every image and backdrop.
CompositeSpec == Init /\ [][CompositeNext]_vars

(***************************************************************************)
(* Properties of preprocessImages and removeBackground.                    *)
(***************************************************************************)

Contains(seq, x) == \E i \in DOMAIN seq : seq[i] = x
InLog(event) == Contains(hist.log, event)

ProcessedKinds == {"replicate", "client-side"}

\* A requested removal whose flag is false in the returned bundle.
PersonRemovalMissing == options.removePersonBackground /\ ~bundle.steps.personBackgroundRemoved
GarmentRemovalMissing == options.removeGarmentBackground /\ ~bundle.steps.garmentBackgroundRemoved

\* The verification errors that name a removal whose flag is false.
ErrorsNamingMissing ==
    (IF PersonRemovalMissing THEN {PersonGateError} ELSE {})
    \cup (IF GarmentRemovalMissing THEN {GarmentGateError} ELSE {})

\* C1 (as written): whenever a requested removal's flag is false, the bundle has
\* success=false and its error is the verification error naming that failed removal.
C1_Original ==
    bundle.returned /\ (PersonRemovalMissing \/ GarmentRemovalMissing)
        => ~bundle.success /\ bundle.error \in ErrorsNamingMissing

\* C1: a bundle has success=true only if the flag of every requested removal is true;
\* when a flag is false the bundle has success=false, and its error is the gate's error
\* naming the first missing removal (person before garment) if the call reached the
\* gate, and the message of the read or encode failure that ended it otherwise.
C1_RemovalGate ==
    bundle.returned =>
        /\ bundle.success => ~PersonRemovalMissing /\ ~GarmentRemovalMissing
        /\ (PersonRemovalMissing \/ GarmentRemovalMissing) /\ InLog("gate")
               => bundle.error = (IF PersonRemovalMissing THEN PersonGateError
                                  ELSE GarmentGateError)
        /\ (PersonRemovalMissing \/ GarmentRemovalMissing) /\ ~InLog("gate")
               => bundle.error \in {PreprocessingFailed, FailedToFetch}

\* Both removals were requested and both failed: the error names the person only.
C1_Witness ==
    /\ bundle.returned
    /\ PersonRemovalMissing /\ GarmentRemovalMissing
    /\ InLog("person-bg:end") /\ InLog("garment-bg:end")
    /\ bundle.error = PersonGateError

C3_Original ==
    bundle.returned =>
        /\ options.removePersonBackground
               => /\ bundle.processedPersonImage.ref # personImageFile.ref
                  /\ bundle.processedPersonImage.img.bg # "original"
        /\ options.removeGarmentBackground
               => /\ bundle.processedGarmentImage.ref # garmentImageFile.ref
                  /\ bundle.processedGarmentImage.img.bg # "original"

\* C3: a success=true bundle carries, for both images, a new File and a data URL whose
\* background a remover has removed; a success=false bundle carries the two input Files
\* themselves, and for each data URL the input's own data URL or ''.
C3_ProcessedOnlyOnSuccess ==
    bundle.returned =>
        /\ bundle.success =>
              /\ bundle.processedPersonImage.ref # personImageFile.ref
              /\ bundle.processedGarmentImage.ref # garmentImageFile.ref
              /\ bundle.processedPersonImage.img.bg \in ProcessedKinds
              /\ bundle.processedGarmentImage.img.bg \in ProcessedKinds
              /\ bundle.personImageDataUrl.img.bg \in ProcessedKinds
              /\ bundle.garmentImageDataUrl.img.bg \in ProcessedKinds
              /\ bundle.processedPersonImage.img.subject = "person"
              /\ bundle.processedGarmentImage.img.subject = "garment"
        /\ ~bundle.success =>
              /\ bundle.processedPersonImage = personImageFile
              /\ bundle.processedGarmentImage = garmentImageFile
              /\ bundle.personImageDataUrl \in {EmptyUrl, fileToDataUrl(personImageFile)}
              /\ bundle.garmentImageDataUrl \in {EmptyUrl, fileToDataUrl(garmentImageFile)}

\* A failed call whose person removal had succeeded still hands back the upload.
C3_Witness ==
    /\ bundle.returned /\ ~bundle.success
    /\ options.removePersonBackground
    /\ bundle.steps.personBackgroundRemoved
    /\ bundle.processedPersonImage = personImageFile
    /\ bundle.processedPersonImage.img.bg = "original"

\* C4: handleGenerate calls the generation service only after preprocessImages returned
\* success=true with both background-removal flags true, and only with the processed
\* Files of that bundle, never the uploads; a handleGenerate that ended without the
\* call shows an error.
C4_GenerationGuard ==
    /\ page.pc \in {"generating", "compositing"} => page.called /\ page.sent # NoPayload
    /\ page.sent # NoPayload =>
          /\ bundle.returned /\ bundle.success
          /\ bundle.steps.personBackgroundRemoved
          /\ bundle.steps.garmentBackgroundRemoved
          /\ page.sent.person = bundle.processedPersonImage
          /\ page.sent.garment = bundle.processedGarmentImage
          /\ page.sent.person.ref # page.hgPerson.ref
          /\ page.sent.garment.ref # page.hgOutfit.ref
          /\ page.sent.person.img.bg \in ProcessedKinds
          /\ page.sent.garment.img.bg \in ProcessedKinds
    /\ page.pc = "idle" /\ page.attempted /\ ~page.called => page.error # ""
    /\ page.pc \in {"preprocessing", "converting"} => ~page.called /\ page.sent = NoPayload

C4_Witness ==
    /\ page.pc = "generating"
    /\ page.sent.person.img = Removed(Picture("person"), "client-side")
    /\ page.sent.garment.img = Removed(Picture("garment"), "replicate")

\* A requested removal that ran and was not accepted.
PersonRemovalFailed ==
    options.removePersonBackground /\ InLog("person-bg:end") /\ ~steps.personBackgroundRemoved
GarmentRemovalFailed ==
    options.removeGarmentBackground /\ InLog("garment-bg:end") /\ ~steps.garmentBackgroundRemoved

\* C5 (as written): a failed stage short-circuits the rest: after person removal fails
\* neither garment removal nor segmentation starts, after garment removal fails
\* segmentation does not start.
C5_Original ==
    /\ PersonRemovalFailed => ~InLog("garment-bg:start") /\ ~InLog("segment:start")
    /\ GarmentRemovalFailed => ~InLog("segment:start")

\* C5: a failed removal does not end the call: the later stages that were requested
\* still run (unless making the garment File fails), and the call fails at the gate,
\* with the gate's error; a failed read of the inputs does end the call at once.
C5_FailureSurfacesAtGate ==
    /\ bundle.returned /\ PersonRemovalFailed /\ ~InLog("garment-file:error")
          => /\ options.removeGarmentBackground => InLog("garment-bg:end")
             /\ SegmentationRequested(options) => InLog("segment:end")
             /\ InLog("gate")
             /\ ~bundle.success /\ bundle.error = PersonGateError
    /\ bundle.returned /\ GarmentRemovalFailed
          => /\ SegmentationRequested(options) => InLog("segment:end")
             /\ InLog("gate")
             /\ ~bundle.success /\ bundle.error = GateError(options, steps)
    /\ InLog("decode:error") => hist.log \in {<<"decode:error">>,
                                              <<"decode:error", "catch", "return">>}

C5_Witness ==
    /\ bundle.returned
    /\ PersonRemovalFailed
    /\ InLog("garment-bg:end") /\ steps.garmentBackgroundRemoved
    /\ InLog("segment:end") /\ steps.garmentSegmented
    /\ bundle.error = PersonGateError

\* The place of each stage event in the order of the source.
StageRank(event) ==
    CASE event \in {"decode", "decode:error"}                 -> 1
      [] event = "person-bg:start"                            -> 2
      [] event = "person-bg:end"                              -> 3
      [] event \in {"garment-bg:start", "garment-file:error"} -> 4
      [] event = "garment-bg:end"                             -> 5
      [] event = "segment:start"                              -> 6
      [] event = "segment:end"                                -> 7
      [] event = "gate"                                       -> 8
      [] event \in {"encode", "encode:error"}                 -> 9
      [] event = "verify"                                     -> 10
      [] event = "catch"                                      -> 11
      [] event = "return"                                     -> 12
      [] OTHER                                                -> 0

RemoverEvents == {"replicate", "client-side"}
StartedBy(event) ==
    CASE event = "person-bg:start"  -> "person-bg:end"
      [] event = "garment-bg:start" -> "garment-bg:end"
      [] event = "segment:start"    -> "segment:end"
      [] OTHER                      -> ""

\* Stages run in source order, none twice, each started only after the one before it
\* returned, and the removers run only inside a background-removal stage.
StagesInOrder ==
    LET log == hist.log
    IN /\ \A i, j \in DOMAIN log :
            i < j /\ log[i] \notin RemoverEvents /\ log[j] \notin RemoverEvents
                => StageRank(log[i]) < StageRank(log[j])
       /\ \A i, j \in DOMAIN log :
            i < j /\ StartedBy(log[i]) # "" /\ log[j] \notin RemoverEvents
                => \E k \in DOMAIN log : i < k /\ k <= j /\ log[k] = StartedBy(log[i])
       /\ \A i \in DOMAIN log :
            log[i] \in RemoverEvents
                => /\ i > 1
                   /\ log[i - 1] \in {"person-bg:start", "garment-bg:start", "replicate"}
                   /\ log[i] = "replicate" => log[i - 1] # "replicate"

\* The image garment background removal produced, when it has run.
GarmentRemovalOutput == hist.removals[Len(hist.removals)].result.imageDataUrl

\* C6 (as written): the stages run strictly in order, none twice, and segmentation
\* receives the garment image produced by garment background removal.
C6_Original ==
    /\ StagesInOrder
    /\ InLog("segment:start") /\ options.removeGarmentBackground
          => hist.segInput.img.bg \in ProcessedKinds

\* C6: the stages run strictly in order, none twice; segmentation receives the image
\* garment background removal produced when that removal succeeded, and the garment
\* image as uploaded when it failed or was not requested.
C6_StageOrder ==
    /\ StagesInOrder
    /\ InLog("segment:start") =>
          IF steps.garmentBackgroundRemoved
          THEN /\ hist.segInput = GarmentRemovalOutput
               /\ hist.segInput.img.bg \in ProcessedKinds
               /\ hist.segInput.img.subject = "garment"
          ELSE hist.segInput = fileToDataUrl(garmentImageFile)

C6_Witness ==
    /\ InLog("segment:end")
    /\ GarmentRemovalFailed
    /\ hist.segInput.img = Picture("garment")

\* The order of the attempts: Replicate first, the client-side remover next and only
\* after a failed Replicate attempt, never more than one attempt of each.
AttemptsInOrder ==
    /\ Len(rb.attempts) >= 1 => rb.attempts[1] = "replicate"
    /\ Len(rb.attempts) <= 2
    /\ Len(rb.attempts) = 2 => rb.attempts[2] = "client-side" /\ ~rb.replicateResult.success
    /\ rb.pc = "fallback" => ~rb.replicateResult.success

\* C7 (as written): Replicate is tried first and the client-side remover if and only if
\* the Replicate attempt failed; a Replicate success is returned unchanged, with the
\* method recorded as replicate.
C7_Original ==
    /\ AttemptsInOrder
    /\ rb.pc = "return" =>
          IF rb.replicateResult.success
          THEN /\ rb.attempts = <<"replicate">>
               /\ rb.result = rb.replicateResult
               /\ rb.result.debug.method = "replicate"
          ELSE rb.attempts = <<"replicate", "client-side">>

\* C7: removeBackground tries Replicate first and the client-side remover if and only
\* if the Replicate attempt failed; a Replicate success is returned unchanged, its
\* method recorded as replicate when debug info was asked for and not recorded at all
\* otherwise.
C7_RemoteFirst ==
    /\ AttemptsInOrder
    /\ rb.pc = "return" =>
          IF rb.replicateResult.success
          THEN /\ rb.attempts = <<"replicate">>
               /\ rb.result = rb.replicateResult
               /\ rb.includeDebug => rb.result.debug.method = "replicate"
               /\ ~rb.includeDebug => ~HasDebug(rb.result.debug)
          ELSE rb.attempts = <<"replicate", "client-side">>

C7_Witness ==
    /\ rb.pc = "return"
    /\ rb.replicateResult.success
    /\ rb.result.imageDataUrl.img.bg = "replicate"
    /\ rb.attempts = <<"replicate">>
    /\ ~rb.includeDebug

\* C8: removeBackground returns success=false only when both removers failed, and its
\* promise never rejects.
C8_FailsOnlyWhenBothFail ==
    /\ rb.pc # "rejected"
    /\ rb.pc = "return" /\ ~rb.result.success =>
          /\ rb.attempts = <<"replicate", "client-side">>
          /\ ~rb.replicateResult.success
          /\ ~rb.fallbackResult.success
          /\ rb.result.error = rb.fallbackResult.error
    /\ rb.pc = "return" /\ (rb.replicateResult.success \/ rb.fallbackResult.success)
          => rb.result.success /\ Truthy(rb.result.imageDataUrl)

C8_Witness ==
    /\ rb.pc = "return"
    /\ ~rb.result.success
    /\ rb.result.error = "Could not get canvas context"

BothTried == rb.pc = "return" /\ rb.attempts = <<"replicate", "client-side">>

\* C9 (as written): when both removers were tried, the returned warnings contain the
\* Replicate failure message together with the client-side messages.
C9_Original ==
    BothTried =>
        /\ Contains(rb.result.debug.warnings, rb.replicateResult.error)
        /\ \A i \in DOMAIN rb.fallbackResult.debug.warnings :
              Contains(rb.result.debug.warnings, rb.fallbackResult.debug.warnings[i])
        /\ Len(rb.result.debug.warnings) >= 2

\* C9: when both removers were tried and debug info was asked for, the returned
\* warnings are the Replicate warnings, then "Replicate failed: <message>", then the
\* client-side warnings; without debug info the result has no warnings at all.
C9_MergedWarnings ==
    BothTried =>
        IF rb.includeDebug
        THEN /\ rb.result.debug.method = "client-side"
             /\ rb.result.debug.warnings =
                    <<rb.replicateResult.error,
                      "Replicate failed: " \o rb.replicateResult.error>>
                    \o rb.fallbackResult.debug.warnings
             /\ Len(rb.fallbackResult.debug.warnings) = 1
        ELSE ~HasDebug(rb.result.debug) /\ rb.result.debug.warnings = <<>>

C9_Witness ==
    /\ BothTried
    /\ rb.includeDebug
    /\ rb.result.success
    /\ rb.result.debug.warnings =
          <<"Replicate API token not configured",
            "Replicate failed: Replicate API token not configured",
            ClientSideNotice>>

\* Scenario C: both removals requested, Replicate failed and the client-side remover
\* succeeded for both images, segmentation requested with type top, and the processed
\* images were made into Files.
ScenarioC ==
    /\ bundle.returned
    /\ options.removePersonBackground /\ options.removeGarmentBackground
    /\ options.segmentGarment /\ options.garmentType = "top"
    /\ Len(hist.removals) = 2
    /\ \A i \in {1, 2} :
          /\ hist.removals[i].attempts = <<"replicate", "client-side">>
          /\ ~hist.removals[i].replicateResult.success
          /\ hist.removals[i].fallbackResult.success
    /\ ~InLog("encode:error")

\* The warnings of a removal's debug trace tell of the Replicate failure.
TellsOfReplicateFailure(warnings, removal) ==
    \/ Contains(warnings, removal.replicateResult.error)
    \/ Contains(warnings, ReplicateFailedNote(removal.replicateResult))

C11_ThresholdRule ==
    calc.fn = "removeLightPixels" =>
        LET src == calc.imageData
            dst == calc.out
        IN /\ dst.width = src.width /\ dst.height = src.height
           /\ DOMAIN dst.data = DOMAIN src.data
           /\ \A i \in DOMAIN src.data :
                 LET p == src.data[i]
                     q == dst.data[i]
                 IN /\ q.r = p.r /\ q.g = p.g /\ q.b = p.b
                    /\ p.r + p.g + p.b > 720 => q.a = 0
                    /\ p.r + p.g + p.b <= 720 => q.a = p.a

\* The 250,250,250 border has become transparent, the red centre kept alpha 255.
C11_Witness ==
    /\ calc.fn = "removeLightPixels"
    /\ calc.imageData = BorderedRed
    /\ \A i \in {1, 2, 3, 4, 6, 7, 8, 9} : calc.out.data[i] = Pixel(250, 250, 250, 0)
    /\ calc.out.data[5] = Pixel(255, 0, 0, 255)

\* C14: detectGarmentTypeByAspectRatio answers likelyTop exactly when width/height > 1.2,
\* likelyBottom exactly when width/height < 0.8 and likelyFullBody otherwise, the
\* ratios 1.2 and 0.8 themselves included; 300x600 is likelyBottom.
C14_AspectRatioClasses ==
    calc.fn = "detectGarmentTypeByAspectRatio" =>
        /\ calc.out = "likelyTop" <=> 5 * calc.width > 6 * calc.height
        /\ calc.out = "likelyBottom" <=> 5 * calc.width < 4 * calc.height
        /\ calc.out = "likelyFullBody" <=>
              (5 * calc.width <= 6 * calc.height /\ 5 * calc.width >= 4 * calc.height)
        /\ 5 * calc.width = 6 * calc.height => calc.out = "likelyFullBody"
        /\ 5 * calc.width = 4 * calc.height => calc.out = "likelyFullBody"

C14_Witness ==
    /\ calc.fn = "detectGarmentTypeByAspectRatio"
    /\ calc.width = 300 /\ calc.height = 600
    /\ calc.out = "likelyBottom"

InUnitInterval(q) == q.den > 0 /\ 0 <= q.num /\ q.num <= q.den
AtMost(p, q) == ~Less(q, p)

\* C15: the confidence detectSingleGarment reports lies in [0,1] for every image and
\* every declared type, and so do both densities analyzeEdgeDensity computes.
C15_UnitInterval ==
    /\ calc.fn = "detectSingleGarment" => InUnitInterval(calc.out.confidence)
    /\ calc.fn = "analyzeEdgeDensity" =>
          /\ InUnitInterval(calc.out.topEdgeDensity)
          /\ InUnitInterval(calc.out.bottomEdgeDensity)

\* A wide image, all edges in its top half: both signals at their most, confidence 1.
C15_Witness ==
    /\ calc.fn = "detectSingleGarment"
    /\ calc.userSelectedType = "top" /\ calc.outcome = "ok"
    /\ calc.out.confidence.num = calc.out.confidence.den
    /\ calc.out.isSingleGarment

\* The density difference that speaks for the selected type.
OwnMinusOther(userSelectedType, edgeDensity) ==
    IF userSelectedType = "top"
    THEN Minus(edgeDensity.topEdgeDensity, edgeDensity.bottomEdgeDensity)
    ELSE Minus(edgeDensity.bottomEdgeDensity, edgeDensity.topEdgeDensity)

\* C16: for type top and a fixed aspect ratio, a larger topEdgeDensity -
\* bottomEdgeDensity never gives a smaller confidence; likewise for type bottom with
\* bottomEdgeDensity - topEdgeDensity.
C16_Monotone ==
    calc.fn = "confidencePair" =>
        (AtMost(OwnMinusOther(calc.userSelectedType, calc.first),
                OwnMinusOther(calc.userSelectedType, calc.second))
            => AtMost(calc.outFirst, calc.outSecond))

C16_Witness ==
    /\ calc.fn = "confidencePair"
    /\ calc.userSelectedType = "top"
    /\ Less(OwnMinusOther("top", calc.first), OwnMinusOther("top", calc.second))
    /\ Less(calc.outFirst, calc.outSecond)
    /\ Less(Ratio(0, 1), calc.outFirst)

\* C17: for fullBody and completeOutfit detectSingleGarment answers confidence 1.0 and
\* isSingleGarment=true for every input, before the image is loaded or either signal
\* is computed.
C17_ShortCircuit ==
    calc.fn = "detectSingleGarment"
    /\ calc.userSelectedType \in {"fullBody", "completeOutfit"}
        => /\ calc.out.isSingleGarment
           /\ calc.out.confidence = Ratio(1, 1)
           /\ calc.out.detectedType = "fullBody"

\* The answer is the same for an image that cannot even be loaded.
C17_Witness ==
    /\ calc.fn = "detectSingleGarment"
    /\ calc.userSelectedType = "completeOutfit"
    /\ calc.outcome = "load-error"
    /\ calc.out.confidence = Ratio(1, 1)

\* What segmentGarment answers when it hands the input back as it came.
IsFullImage(call) ==
    /\ call.out.success
    /\ call.out.segmentedImageDataUrl = call.imageDataUrl
    /\ call.out.debug.decision # "using-region-cropping"
    /\ call.includeDebug =>
          /\ call.out.debug.decision = "using-full-image"
          /\ call.out.debug.selectedGarmentType = call.garmentType

InputHasAlphaBelow255 ==
    \E i \in DOMAIN comp.imageDataUrl.img.data : comp.imageDataUrl.img.data[i].a < 255

\* The alpha scan is behind: its canvas context was asked for.
ScanDone == comp.pc # "idle" /\ comp.tempCtx # "none"

\* removeBackground has been called in this run.
RemovalCalled == rb # RbIdle

\* C18 (as written): the secondary removal pass runs if and only if no pixel of the
\* input has alpha below 255, and an image with such a pixel is composited without a
\* call of removeBackground.
C18_Original ==
    ScanDone =>
        /\ comp.removalPass # "none" <=> ~InputHasAlphaBelow255
        /\ InputHasAlphaBelow255 => ~RemovalCalled

\* C18: when the scan canvas gives a 2D context, the secondary removal pass is entered
\* if and only if no pixel of the input has alpha below 255; without the context the
\* scan is skipped and no pass is made, whatever the image. removeBackground is called
\* only inside the pass, on the input image and without debug, and always unless the
\* image cannot be made into a File; an image with a pixel of alpha below 255 is
\* composited as it came, without a call of removeBackground.
C18_RemovalPassIffOpaque ==
    ScanDone =>
        /\ comp.tempCtx = "2d" => (comp.removalPass # "none" <=> ~InputHasAlphaBelow255)
        /\ comp.tempCtx = "null" => comp.removalPass = "none"
        /\ RemovalCalled =>
              /\ comp.removalPass # "none"
              /\ rb.imageFile.img = comp.imageDataUrl.img
              /\ ~rb.includeDebug
        /\ comp.removalPass \in {"removed", "failed"} => rb.attempts # <<>>
        /\ InputHasAlphaBelow255 =>
              /\ ~RemovalCalled
              /\ comp.foregroundImg = comp.imageDataUrl.img

C18_Witness ==
    /\ comp.pc = "return" /\ comp.result.success
    /\ comp.tempCtx = "2d" /\ ~InputHasAlphaBelow255
    /\ comp.removalPass = "removed"
    /\ rb.attempts = <<"replicate", "client-side">>
    /\ comp.foregroundImg.bg = "client-side"

\* The composite canvas has been made.
CanvasMade == comp.pc # "idle" /\ comp.compositeCanvas # NoCanvas

\* C19 (as written): for every backdrop the composite canvas has exactly the width and
\* the height of the foreground.
C19_Original ==
    comp.pc = "return" /\ comp.result.success =>
        /\ comp.result.compositedImageDataUrl.img.width = comp.foregroundWidth
        /\ comp.result.compositedImageDataUrl.img.height = comp.foregroundHeight

\* The whole canvas painted white, at the size of the foreground.
WhiteAtForegroundSize ==
    FillWhite([width |-> Whole(comp.foregroundWidth), height |-> Whole(comp.foregroundHeight)])

OtherStagesSucceeded ==
    /\ ~InLog("decode:error") /\ ~InLog("garment-file:error") /\ ~InLog("encode:error")
    /\ options.removeGarmentBackground => steps.garmentBackgroundRemoved
    /\ SegmentationRequested(options) => steps.garmentSegmented

\* C23 (as written, for the person): a call with removePersonBackground=false in which
\* every requested stage succeeds returns success=true, the person's flag false and the
\* person image passed through without removal.
C23_Original ==
    bundle.returned /\ ~options.removePersonBackground /\ OtherStagesSucceeded
        => /\ bundle.success
           /\ ~bundle.steps.personBackgroundRemoved
           /\ bundle.processedPersonImage.img = personImageFile.img

\* The removeBackground activations of this call for the person's, the garment's image.
PersonRemovals == {i \in DOMAIN hist.removals : hist.removals[i].imageFile = personImageFile}
GarmentRemovals == {i \in DOMAIN hist.removals : hist.removals[i].imageFile.name = "garment.png"}

\* removeBackground reported success, with an image.
ReportedSuccess(activation) ==
    activation.result.success /\ activation.result.imageDataUrl # EmptyUrl

\* What the flags say at any moment of a call.
FlagsTellWhatSucceeded ==
    /\ steps.personBackgroundRemoved <=>
          /\ options.removePersonBackground
          /\ \E i \in PersonRemovals : ReportedSuccess(hist.removals[i])
    /\ steps.garmentBackgroundRemoved <=>
          /\ options.removeGarmentBackground
          /\ \E i \in GarmentRemovals : ReportedSuccess(hist.removals[i])
    /\ steps.garmentSegmented =>
          /\ SegmentationRequested(options)
          /\ InLog("segment:end")
          /\ garmentImageDataUrl.img = hist.segInput.img
    /\ pc = "decode" => steps = StepsInit
    /\ bundle.returned => bundle.steps = steps

\* Within a call a flag that is set stays set.
FlagsStaySet ==
    pc' \notin {"idle", "decode"} =>
        /\ steps.personBackgroundRemoved => steps'.personBackgroundRemoved
        /\ steps.garmentBackgroundRemoved => steps'.garmentBackgroundRemoved
        /\ steps.garmentSegmented => steps'.garmentSegmented

ClaimedConfidence ==
    LET density == analyzeEdgeDensity(calc.imageData)
        class == detectGarmentTypeByAspectRatio(calc.imageData.width, calc.imageData.height)
        own == IF calc.userSelectedType = "top" THEN density.topEdgeDensity
               ELSE density.bottomEdgeDensity
        other == IF calc.userSelectedType = "top" THEN density.bottomEdgeDensity
                 ELSE density.topEdgeDensity
        classMatches == \/ calc.userSelectedType = "top" /\ class = "likelyTop"
                        \/ calc.userSelectedType = "bottom" /\ class = "likelyBottom"
        doubled == Twice(Minus(own, other))
    IN Plus(IF classMatches THEN Ratio(3, 10) ELSE Ratio(0, 1),
            IF ~Less(other, own) THEN Ratio(0, 1)
            ELSE IF Less(Ratio(7, 10), doubled) THEN Ratio(7, 10) ELSE doubled)

\* C24: for declared type top or bottom, isSingleGarment is true if and only if
\* confidence > 0.6 and the detected class is the declared type; when the image loads,
\* confidence is 0.3 for a matching aspect-ratio class (else 0) plus, when the own half
\* has the denser edges, twice the difference of the densities capped at 0.7 (else 0).
C24_ConfidenceRule ==
    calc.fn = "detectSingleGarment" /\ calc.userSelectedType \in {"top", "bottom"} =>
        /\ calc.out.isSingleGarment <=>
              /\ Less(Ratio(6, 10), calc.out.confidence)
              /\ calc.out.detectedType = calc.userSelectedType
        /\ calc.outcome = "ok" =>
              /\ calc.out.confidence.num * ClaimedConfidence.den
                    = ClaimedConfidence.num * calc.out.confidence.den
              /\ ~Less(Ratio(6, 10), calc.out.confidence) => calc.out.detectedType = "undefined"

\* A wide image declared top whose upper half has the edges: both signals count.
C24_Witness ==
    /\ calc.fn = "detectSingleGarment" /\ calc.userSelectedType = "top"
    /\ calc.outcome = "ok"
    /\ calc.imageData.width = 5 /\ calc.imageData.height = 4
    /\ Less(Ratio(7, 10), calc.out.confidence)
    /\ calc.out.isSingleGarment
    /\ calc.out.detectedType = "top"

\* C28: every call of preprocessImages ends by returning a bundle, with success true or
\* false, and never by rejecting, also when an input cannot be decoded or encoded.
C28_AlwaysReturns ==
    /\ (pc # "idle") ~> (pc = "done" /\ bundle.returned)
    /\ [](pc # "rejected")
    /\ [](pc = "done" => bundle.returned /\ bundle.success \in BOOLEAN)

\* The call whose inputs could not be decoded, not even in the catch block.
C28_Witness ==
    /\ pc = "done" /\ bundle.returned /\ ~bundle.success
    /\ InLog("decode:error")
    /\ bundle.personImageDataUrl = EmptyUrl
    /\ bundle.error = PreprocessingFailed

(***************************************************************************)
(* Further properties of the DressYourself page.                           *)
(***************************************************************************)

\* fullBody is never selected together with top or bottom.
FullBodyExcludesParts ==
    ~(page.garmentSelection.fullBody
      /\ (page.garmentSelection.top \/ page.garmentSelection.bottom))

\* A click on Generate that gets as far as preprocessImages finds something selected
\* and hands over the garment type of the selection; with nothing selected the click
\* has its error and nothing is called.
GenerateHandsSelectedType ==
    LET sel == page.garmentSelection
    IN /\ page.pc = "idle" /\ page'.pc = "preprocessing" =>
             /\ sel.top \/ sel.bottom \/ sel.fullBody
             /\ pc' = "decode"
             /\ sel.fullBody => options'.garmentType = "fullBody"
             /\ sel.top /\ sel.bottom => options'.garmentType = "completeOutfit"
             /\ sel.top /\ ~sel.bottom /\ ~sel.fullBody => options'.garmentType = "top"
             /\ sel.bottom /\ ~sel.top /\ ~sel.fullBody => options'.garmentType = "bottom"
       /\ ~(sel.top \/ sel.bottom \/ sel.fullBody) =>
             /\ GenerateGuardError(page) # ""
             /\ page.pc = "idle" => page'.pc = "idle" /\ pc' = "idle"

\* C26: whatever is clicked, fullBody is never selected together with top or bottom;
\* the garment type handed to preprocessImages is fullBody when fullBody is selected,
\* completeOutfit for top and bottom together, top for top alone, bottom for bottom
\* alone; with nothing selected Generate sets an error and calls nothing.
C26_SelectionRule == []FullBodyExcludesParts /\ [][GenerateHandsSelectedType]_vars

\* top and bottom both selected: the pipeline runs for a complete outfit.
C26_Witness ==
    /\ page.pc = "preprocessing"
    /\ page.garmentSelection = [top |-> TRUE, bottom |-> TRUE, fullBody |-> FALSE]
    /\ options.garmentType = "completeOutfit"

(***************************************************************************)
(* The masking variant of segmentation.                                    *)
(***************************************************************************)

\* Row y of an image of that height lies in the band of the type.
InBand(garmentType, y, height) ==
    \/ garmentType = "top" /\ 10 * (y + 1) <= 6 * height
    \/ garmentType = "bottom" /\ y >= (4 * height) \div 10
    \/ garmentType \in {"fullBody", "completeOutfit"}

\* C25: segmentGarmentAdvanced answers an image of the input's width and height in
\* which the pixels of the rows outside the band (top: y < floor(0.6 * height), bottom:
\* y >= floor(0.4 * height), fullBody and completeOutfit: every row) have alpha 0 and
\* are otherwise as they were, and the pixels inside the band are unchanged; every row
\* is in the band of top or in the band of bottom.
C25_MaskOutsideBand ==
    calc.fn = "segmentGarmentAdvanced" /\ calc.outcome = "ok" =>
        LET in == calc.imageDataUrl.img
            out == calc.out.segmentedImageDataUrl.img
        IN /\ calc.out.success
           /\ out.width = in.width /\ out.height = in.height
           /\ Len(out.data) = Len(in.data)
           /\ \A x \in 0 .. in.width - 1, y \in 0 .. in.height - 1 :
                 /\ InBand(calc.garmentType, y, in.height)
                       => PixelAt(out, x, y) = PixelAt(in, x, y)
                 /\ ~InBand(calc.garmentType, y, in.height)
                       => PixelAt(out, x, y) = [PixelAt(in, x, y) EXCEPT !.a = 0]
                 /\ InBand("top", y, in.height) \/ InBand("bottom", y, in.height)

\* A bottom of height 5: rows 0 and 1 are cleared, rows 2 to 4 stay.
C25_Witness ==
    /\ calc.fn = "segmentGarmentAdvanced" /\ calc.outcome = "ok"
    /\ calc.garmentType = "bottom"
    /\ calc.imageDataUrl.img.height = 5
    /\ PixelAt(calc.out.segmentedImageDataUrl.img, 0, 1).a = 0
    /\ PixelAt(calc.out.segmentedImageDataUrl.img, 0, 2).a = 255

\* src={compositedImage || generatedImage || ''}: what the result panel shows.
Displayed ==
    IF page.compositedImage # "" THEN page.compositedImage ELSE page.generatedImage

\* C21 (as written, for the page): whenever the compositing call that settled last
\* answered success=false, the page shows the uncomposited generated image.
C21_Original ==
    page.generatedImage # "" /\ page.lastResult = "failed"
        => Displayed = page.generatedImage

\* C29 (as written): once every compositing call has settled, all of them with
\* success, and the backdrop selected last has had its call, the composite shown is
\* the one for the selected backdrop.
C29_Original ==
    ( /\ page.pc = "idle" /\ page.pending = {}
      /\ page.generatedImage # "" /\ ~page.failed
      /\ page.lastCall = page.selectedBackground )
        => page.compositedImage = "composited:" \o page.selectedBackground

\* C30 (as written): compositedImage is non-null only while generatedImage is non-null.
C30_Original ==
    page.compositedImage # "" => page.generatedImage # ""

\* What the running call holds and returns comes from its own inputs and its own stages.
OwnResult ==
    /\ FlagsTellWhatSucceeded
    /\ bundle.returned /\ ~bundle.success =>
          /\ bundle.processedPersonImage = personImageFile
          /\ bundle.processedGarmentImage = garmentImageFile
          /\ bundle.error = CatchMessage(thrown)
          /\ bundle.debug = IF options.includeDebug THEN debugInfo ELSE DebugInfoInit
    /\ bundle.returned /\ bundle.success =>
          /\ bundle.personImageDataUrl = personImageDataUrl
          /\ bundle.garmentImageDataUrl = garmentImageDataUrl
          /\ bundle.processedPersonImage.img = personImageDataUrl.img
          /\ bundle.processedGarmentImage.img = garmentImageDataUrl.img
          /\ \A i \in DOMAIN hist.removals : hist.removals[i].includeDebug = options.includeDebug

\* A step either leaves the waiting call's locals as they are (a stage of the running
\* call) or hands each call exactly the locals it had when it was left (a switch).
SwitchKeepsLocals ==
    \/ suspended' = suspended
    \/ suspended' = Locals /\ Locals' = suspended

\* C22: of two calls of preprocessImages whose stages interleave, a stage of one changes
\* nothing the other holds, each call resumes with the locals it was suspended with, and
\* so each returns the bundle (files, data URLs, flags, success, error, debug record) that
\* its own inputs and its own stage results give, as it does alone.
C22_RequestsIndependent == []OwnResult /\ [][SwitchKeepsLocals]_vars

\* The call with every stage has returned its success bundle while the other call is
\* still inside removeBackground, waiting for the client-side remover after Replicate failed.
C22_Witness ==
    /\ bundle.returned /\ bundle.success
    /\ options = PairOptions(TRUE)
    /\ suspended.pc = "personBgWait"
    /\ suspended.rb.pc = "fallback"
    /\ suspended.options = PairOptions(FALSE)
    /\ suspended.steps = StepsInit

=============================================================================
